---- MODULE Spec2Model ----
(***************************************************************************)
(* Verification model of the advisory pipeline's decision-and-temporal-    *)
(* state core: the SCD2 history store (storage/scd2_manager.py), the       *)
(* advisory state machine (decisioning/state_machine.py) and the rule      *)
(* engine (decisioning/rule_engine.py, decisioning/rules.py).              *)
(***************************************************************************)
EXTENDS Integers, Sequences, FiniteSets, TLC

(***************************************************************************)
(* Bounds of the model.                                                    *)
(***************************************************************************)
\* Largest reading of the wall clock (datetime.utcnow()).
MaxClock == 3
\* Largest number of rows of advisory_state_history.
MaxRows == 2
\* Largest number of apply_state calls the racing threads begin.
MaxCalls == 3
\* Largest reading of time.monotonic().
MaxMonotonic == 4
\* Largest failure count of the circuit breaker.
MaxFailures == 3
\* Largest max_retries of a RetryConfig.
MaxRetries == 1
\* Largest number of observations handed to one load call.
MaxLoad == 2
\* Largest number of load calls.
MaxLoads == 3

(***************************************************************************)
(* Values.                                                                 *)
(***************************************************************************)
\* Python None / SQL NULL in a string column.
NULL == "NULL"
\* SQL NULL in a TIMESTAMP column (clock readings start at 1).
NullTime == 0

Advisories == {"pkg:CVE-2024-0001", "pkg:CVE-2024-0002"}
RunIds == {"run_001", "run_002"}
Threads == {"t1", "t2"}

\* json.dumps(x): the serialized text of x, a value distinct from x itself.
JsonDumps(x) == <<"json", x>>

\* The decision part of the AdvisoryState values handed to apply_state.
\* "base" and "evidence_only" agree on the four compared fields; each of the
\* others differs from "base" in exactly one compared field.
Templates ==
  { [name |-> "base", state |-> "pending_upstream", state_type |-> "non_final",
     fixed_version |-> NULL, confidence |-> "medium", reason_code |-> "AWAITING_FIX",
     explanation |-> "No fix currently available upstream.",
     evidence |-> [fix_available |-> FALSE, source_count |-> 1],
     decision_rule |-> "R6", contributing_sources |-> <<"nvd">>],
    [name |-> "evidence_only", state |-> "pending_upstream", state_type |-> "non_final",
     fixed_version |-> NULL, confidence |-> "medium", reason_code |-> "AWAITING_FIX",
     explanation |-> "No fix currently available upstream. Sources: nvd, osv.",
     evidence |-> [fix_available |-> FALSE, source_count |-> 2],
     decision_rule |-> "R6", contributing_sources |-> <<"nvd", "osv">>],
    [name |-> "state_only", state |-> "fixed", state_type |-> "final",
     fixed_version |-> NULL, confidence |-> "medium", reason_code |-> "AWAITING_FIX",
     explanation |-> "Fixed.",
     evidence |-> [fix_available |-> FALSE, source_count |-> 1],
     decision_rule |-> "R6", contributing_sources |-> <<"nvd">>],
    [name |-> "version_only", state |-> "pending_upstream", state_type |-> "non_final",
     fixed_version |-> "1.2.3", confidence |-> "medium", reason_code |-> "AWAITING_FIX",
     explanation |-> "No fix currently available upstream.",
     evidence |-> [fix_available |-> FALSE, source_count |-> 1],
     decision_rule |-> "R6", contributing_sources |-> <<"nvd">>],
    [name |-> "confidence_only", state |-> "pending_upstream", state_type |-> "non_final",
     fixed_version |-> NULL, confidence |-> "low", reason_code |-> "AWAITING_FIX",
     explanation |-> "No fix currently available upstream.",
     evidence |-> [fix_available |-> FALSE, source_count |-> 1],
     decision_rule |-> "R6", contributing_sources |-> <<"nvd">>],
    [name |-> "reason_only", state |-> "pending_upstream", state_type |-> "non_final",
     fixed_version |-> NULL, confidence |-> "medium", reason_code |-> "NEW_CVE",
     explanation |-> "No fix currently available upstream.",
     evidence |-> [fix_available |-> FALSE, source_count |-> 1],
     decision_rule |-> "R5", contributing_sources |-> <<"nvd">>] }

\* dataclass AdvisoryState: the candidate handed to apply_state.
AdvisoryState(advisory_id, d) ==
  [advisory_id |-> advisory_id,
   cve_id |-> advisory_id,
   package_name |-> "pkg",
   state |-> d.state,
   state_type |-> d.state_type,
   fixed_version |-> d.fixed_version,
   confidence |-> d.confidence,
   explanation |-> d.explanation,
   reason_code |-> d.reason_code,
   evidence |-> d.evidence,
   decision_rule |-> d.decision_rule,
   contributing_sources |-> d.contributing_sources,
   dissenting_sources |-> <<>>,
   staleness_score |-> 0]

\* The candidates the model hands to apply_state: every template for the first
\* advisory, one of them for the second.
Candidates ==
  {AdvisoryState("pkg:CVE-2024-0001", d) : d \in Templates}
    \cup {AdvisoryState("pkg:CVE-2024-0002", d) :
             d \in {e \in Templates : e.name = "base"}}

\* The candidates of the racing threads.
ConcCandidates ==
  {c \in Candidates :
     \/ c.advisory_id = "pkg:CVE-2024-0002"
     \/ \E d \in Templates : /\ d.name \in {"base", "evidence_only", "state_only"}
                             /\ c = AdvisoryState("pkg:CVE-2024-0001", d)}

\* Two pipeline runs racing: each thread applies states under its own run_id.
RunIdOf(t) == IF t = "t1" THEN "run_001" ELSE "run_002"

\* The points in time the model hands to get_state_at_time.
Times == 0..MaxClock

(***************************************************************************)
(* AdvisoryStateMachine (decisioning/state_machine.py).                    *)
(***************************************************************************)
FINAL_STATES == {"fixed", "not_applicable", "wont_fix"}
NON_FINAL_STATES == {"pending_upstream", "under_investigation", "unknown"}

\* A config argument: `given` is FALSE for None; `keys` are the keys of the
\* dict; final / non_final are the lists under those keys.
NoConfig == [given |-> FALSE, keys |-> {}, final |-> {}, non_final |-> {}]
Configs ==
  { NoConfig,
    [given |-> TRUE, keys |-> {}, final |-> {}, non_final |-> {}],
    [given |-> TRUE, keys |-> {"final", "non_final"},
     final |-> {"resolved", "dismissed"}, non_final |-> {"open", "investigating"}],
    [given |-> TRUE, keys |-> {"final"},
     final |-> {"fixed", "resolved"}, non_final |-> {}],
    [given |-> TRUE, keys |-> {"final", "non_final"},
     final |-> {"fixed", "unknown"}, non_final |-> {"unknown", "pending_upstream"}] }

\* The state names handed to the machine; NULL is None.
StateNames ==
  FINAL_STATES \cup NON_FINAL_STATES
    \cup {"resolved", "dismissed", "open", "investigating", "invalid_state", NULL}

\* __init__ adding the configured states to the default ones.
AdvisoryStateMachine_ExtendsDefaults(config) ==
  LET truthy == config.given /\ config.keys # {}
      final == IF truthy /\ "final" \in config.keys
                 THEN config.final \cup FINAL_STATES ELSE FINAL_STATES
      non_final == IF truthy /\ "non_final" \in config.keys
                     THEN config.non_final \cup NON_FINAL_STATES ELSE NON_FINAL_STATES
  IN [final_states |-> final,
      non_final_states |-> non_final,
      all_states |-> final \cup non_final]

\* __init__: `if config:` is false for None and for an empty dict.
AdvisoryStateMachine(config) ==
  LET truthy == config.given /\ config.keys # {}
      final == IF truthy /\ "final" \in config.keys
                 THEN config.final ELSE FINAL_STATES
      non_final == IF truthy /\ "non_final" \in config.keys
                     THEN config.non_final ELSE NON_FINAL_STATES
  IN [final_states |-> final,
      non_final_states |-> non_final,
      all_states |-> final \cup non_final]

\* A message is the sequence of the words of the formatted string; <<>> is
\* None.
NoReason == <<>>
TransitionResult(valid, reason, log) == [valid |-> valid, reason |-> reason, log |-> log]

\* validate_transition without the final -> non-final branch.
ValidateTransition_NoRegressionBranch(m, current_state, new_state, allow_regressions) ==
  IF new_state \notin m.all_states
  THEN TransitionResult(FALSE, <<"Invalid", "target", "state:", new_state>>, <<>>)
  ELSE IF current_state = NULL
  THEN TransitionResult(TRUE, NoReason, <<>>)
  ELSE IF current_state \notin m.all_states
  THEN TransitionResult(FALSE, <<"Invalid", "current", "state:", current_state>>, <<>>)
  ELSE TransitionResult(TRUE, NoReason, <<>>)

\* validate_transition taking every non-final target for a regression,
\* whatever the current state.
ValidateTransition_RegressionByTarget(m, current_state, new_state, allow_regressions) ==
  IF new_state \notin m.all_states
  THEN TransitionResult(FALSE, <<"Invalid", "target", "state:", new_state>>, <<>>)
  ELSE IF current_state = NULL
  THEN TransitionResult(TRUE, NoReason, <<>>)
  ELSE IF current_state \notin m.all_states
  THEN TransitionResult(FALSE, <<"Invalid", "current", "state:", current_state>>, <<>>)
  ELSE IF current_state = new_state
  THEN TransitionResult(TRUE, NoReason, <<>>)
  ELSE IF new_state \notin m.final_states /\ ~allow_regressions
  THEN TransitionResult(FALSE,
         <<"Regression", "not", "allowed:", current_state, "(final)",
           "->", new_state, "(non-final)">>, <<>>)
  ELSE TransitionResult(TRUE, NoReason, <<>>)

\* validate_transition testing the current state's membership before the
\* None test.
ValidateTransition_CurrentCheckedFirst(m, current_state, new_state, allow_regressions) ==
  IF new_state \notin m.all_states
  THEN TransitionResult(FALSE, <<"Invalid", "target", "state:", new_state>>, <<>>)
  ELSE IF current_state \notin m.all_states
  THEN TransitionResult(FALSE, <<"Invalid", "current", "state:", current_state>>, <<>>)
  ELSE IF current_state = new_state \/ current_state \notin m.final_states
  THEN TransitionResult(TRUE, NoReason, <<>>)
  ELSE IF new_state \notin m.final_states /\ ~allow_regressions
  THEN TransitionResult(FALSE,
         <<"Regression", "not", "allowed:", current_state, "(final)",
           "->", new_state, "(non-final)">>, <<>>)
  ELSE TransitionResult(TRUE, NoReason, <<>>)

\* validate_transition testing for a new advisory before it looks at the
\* target state.
ValidateTransition_NoneFirst(m, current_state, new_state, allow_regressions) ==
  IF current_state = NULL
  THEN TransitionResult(TRUE, NoReason, <<>>)
  ELSE IF new_state \notin m.all_states
  THEN TransitionResult(FALSE, <<"Invalid", "target", "state:", new_state>>, <<>>)
  ELSE IF current_state \notin m.all_states
  THEN TransitionResult(FALSE, <<"Invalid", "current", "state:", current_state>>, <<>>)
  ELSE IF current_state = new_state \/ current_state \notin m.final_states
  THEN TransitionResult(TRUE, NoReason, <<>>)
  ELSE IF new_state \notin m.final_states /\ ~allow_regressions
  THEN TransitionResult(FALSE,
         <<"Regression", "not", "allowed:", current_state, "(final)",
           "->", new_state, "(non-final)">>, <<>>)
  ELSE TransitionResult(TRUE, NoReason, <<>>)

\* validate_transition letting a final state change to nothing but itself.
ValidateTransition_FinalIsFrozen(m, current_state, new_state, allow_regressions) ==
  IF new_state \notin m.all_states
  THEN TransitionResult(FALSE, <<"Invalid", "target", "state:", new_state>>, <<>>)
  ELSE IF current_state = NULL
  THEN TransitionResult(TRUE, NoReason, <<>>)
  ELSE IF current_state \notin m.all_states
  THEN TransitionResult(FALSE, <<"Invalid", "current", "state:", current_state>>, <<>>)
  ELSE IF current_state = new_state \/ current_state \notin m.final_states
  THEN TransitionResult(TRUE, NoReason, <<>>)
  ELSE IF allow_regressions /\ new_state \notin m.final_states
  THEN TransitionResult(TRUE, NoReason, <<>>)
  ELSE TransitionResult(FALSE,
         <<"Regression", "not", "allowed:", current_state, "(final)",
           "->", new_state, "(non-final)">>, <<>>)

\* validate_transition: (is_valid, reason), and what it logs.
ValidateTransition(m, current_state, new_state, allow_regressions) ==
  IF new_state \notin m.all_states
  THEN TransitionResult(FALSE, <<"Invalid", "target", "state:", new_state>>, <<>>)
  ELSE IF current_state = NULL
  THEN TransitionResult(TRUE, NoReason, <<>>)
  ELSE IF current_state \notin m.all_states
  THEN TransitionResult(FALSE, <<"Invalid", "current", "state:", current_state>>, <<>>)
  ELSE IF current_state = new_state
  THEN TransitionResult(TRUE, NoReason, <<>>)
  ELSE LET current_is_final == current_state \in m.final_states
           new_is_final == new_state \in m.final_states
       IN IF ~current_is_final
          THEN TransitionResult(TRUE, NoReason, <<>>)
          ELSE IF current_is_final /\ ~new_is_final
          THEN IF allow_regressions
               THEN TransitionResult(TRUE, NoReason,
                      <<"warning", "Allowing", "regression:", current_state, "->", new_state>>)
               ELSE TransitionResult(FALSE,
                      <<"Regression", "not", "allowed:", current_state, "(final)",
                        "->", new_state, "(non-final)">>, <<>>)
          ELSE IF current_is_final /\ new_is_final
          THEN TransitionResult(TRUE, NoReason,
                 IF current_state # new_state
                   THEN <<"info", "Final", "state", "change:", current_state, "->", new_state>>
                   ELSE <<>>)
          ELSE TransitionResult(TRUE, NoReason, <<>>)

\* get_state_type: FINAL is tested first.
GetStateType(m, state) ==
  IF state \in m.final_states THEN "final"
  ELSE IF state \in m.non_final_states THEN "non_final"
  ELSE NULL

\* is_final_state
IsFinalState(m, state) == state \in m.final_states

\* get_allowed_transitions letting a final state move to every known state.
GetAllowedTransitions_FinalGoesAnywhere(m, current_state) ==
  IF current_state \notin m.all_states THEN {}
  ELSE m.all_states

\* get_allowed_transitions: the list is built from a set, so it is a set of
\* states in no particular order.  non_final_states is tested first.
GetAllowedTransitions(m, current_state) ==
  IF current_state \notin m.all_states THEN {}
  ELSE IF current_state \in m.non_final_states THEN m.all_states
  ELSE IF current_state \in m.final_states THEN m.final_states
  ELSE {}

\* Truth value of an Optional[str] state: None and '' are false.
TruthyState(state) == state # NULL /\ state # ""

\* describe_transition computing is_regression from the validation result.
DescribeTransition_RegressionFromValidity(m, current_state, new_state) ==
  LET v == ValidateTransition(m, current_state, new_state, FALSE)
  IN IF \/ TruthyState(current_state) /\ GetStateType(m, current_state) = NULL
        \/ TruthyState(new_state) /\ GetStateType(m, new_state) = NULL
     THEN [outcome |-> "raise", error |-> <<"'NoneType' object has no attribute 'value'">>]
     ELSE [outcome |-> "return",
           from_state |-> current_state,
           to_state |-> new_state,
           is_valid |-> v.valid,
           rejection_reason |-> v.reason,
           from_type |-> IF TruthyState(current_state)
                           THEN GetStateType(m, current_state) ELSE NULL,
           to_type |-> IF TruthyState(new_state)
                         THEN GetStateType(m, new_state) ELSE NULL,
           is_regression |-> ~v.valid]

\* describe_transition: get_state_type(...) is None for a state outside the
\* universe, and .value on None raises AttributeError.
DescribeTransition(m, current_state, new_state) ==
  LET v == ValidateTransition(m, current_state, new_state, FALSE)
  IN IF \/ TruthyState(current_state) /\ GetStateType(m, current_state) = NULL
        \/ TruthyState(new_state) /\ GetStateType(m, new_state) = NULL
     THEN [outcome |-> "raise", error |-> <<"'NoneType' object has no attribute 'value'">>]
     ELSE [outcome |-> "return",
           from_state |-> current_state,
           to_state |-> new_state,
           is_valid |-> v.valid,
           rejection_reason |-> v.reason,
           from_type |-> IF TruthyState(current_state)
                           THEN GetStateType(m, current_state) ELSE NULL,
           to_type |-> IF TruthyState(new_state)
                         THEN GetStateType(m, new_state) ELSE NULL,
           is_regression |-> IF TruthyState(current_state)
                               THEN /\ current_state \in m.final_states
                                    /\ new_state \in m.non_final_states
                               ELSE FALSE]

(***************************************************************************)
(* Rules and RuleEngine (decisioning/rules.py, decisioning/rule_engine.py).*)
(***************************************************************************)
\* Largest number of rules in a rule list handed to RuleEngine.
MaxRules == 2

\* advisory_data is a dict: a function whose domain is the set of its keys.
\* dict.get(key, default)
Get(advisory_data, key, default) ==
  IF key \in DOMAIN advisory_data THEN advisory_data[key] ELSE default


SignalValue(choice) ==
  CASE choice = "true" -> TRUE
    [] choice = "false" -> FALSE
    [] choice = "empty" -> ""
    [] OTHER -> choice

AdvisoryData(c) ==
  [k \in {"advisory_id"} \cup {f \in DOMAIN c : c[f] # "absent"} |->
     IF k = "advisory_id" THEN "pkg:CVE-2024-0001" ELSE SignalValue(c[k])]

\* The records handed to decide: each signal absent or present.
AdvisoryDatas ==
  {AdvisoryData(c) : c \in [override_status : {"absent", "not_applicable", "fixed"},
                            is_rejected : {"absent", "true", "false"},
                            fix_available : {"absent", "true", "false"},
                            fixed_version : {"absent", "empty", "1.0.0"},
                            has_signal : {"absent", "true", "false"}]}

\* A record that is not a dict (None, say): it has no .get, so every
\* advisory_data.get(...) on it raises AttributeError.
NotAMapping == [python_type |-> "NoneType"]
IsMapping(advisory_data) == "python_type" \notin DOMAIN advisory_data
AttributeError == <<"'NoneType' object has no attribute 'get'">>

\* Items of a contributing_sources list that are not str are written in
\* angle brackets; ', '.join raises TypeError on a list holding one.
AllStr(sources) == \A i \in 1..Len(sources) : sources[i] \notin {"<int 1>"}

\* Truth value of an optional string: None and "" are false.
TruthyStr(v) == v # NULL /\ v # ""

\* str(x)
Str(x) == <<"str", x>>

\* Rule._extract_sources: the list under contributing_sources, [] otherwise.
ExtractSources(advisory_data) == Get(advisory_data, "contributing_sources", <<>>)

\* ', '.join(sources) if sources else 'none'
JoinSources(sources) == IF sources = <<>> THEN <<"none">> ELSE sources

\* dataclass Decision
Decision(state, state_type, fixed_version, confidence, reason_code, evidence, explanation, contributing_sources, dissenting_sources) ==
  [state |-> state, state_type |-> state_type, fixed_version |-> fixed_version,
   confidence |-> confidence, reason_code |-> reason_code, evidence |-> evidence,
   explanation |-> explanation, contributing_sources |-> contributing_sources,
   dissenting_sources |-> dissenting_sources]

\* What one evaluate call does: returns a Decision, returns None, or raises.
Matched(decision) == [outcome |-> "decision", decision |-> decision]
NoMatch == [outcome |-> "none"]
Raised == [outcome |-> "raise"]

\* Rule(rule_id, priority, reason_code); kind names the subclass.
Rule(kind, rule_id, priority, reason_code) ==
  [kind |-> kind, rule_id |-> rule_id, priority |-> priority, reason_code |-> reason_code]

CsvOverrideRule == Rule("CsvOverrideRule", "R0", 0, "CSV_OVERRIDE")
NvdRejectedRule == Rule("NvdRejectedRule", "R1", 1, "NVD_REJECTED")
UpstreamFixRule == Rule("UpstreamFixRule", "R2", 2, "UPSTREAM_FIX")
UnderInvestigationRule == Rule("UnderInvestigationRule", "R5", 5, "NEW_CVE")
PendingUpstreamRule == Rule("PendingUpstreamRule", "R6", 6, "AWAITING_FIX")
\* Rules a caller adds by subclassing Rule: one that always matches and shares
\* priority 1 with R1, one whose evaluate raises.
CustomMatchRule == Rule("CustomMatchRule", "RX", 1, "CUSTOM")
CustomRaisingRule == Rule("CustomRaisingRule", "RE", 0, "BROKEN")

CsvOverrideEvaluate(self, advisory_data) ==
  LET override_status == Get(advisory_data, "override_status", NULL)
      updated == Get(advisory_data, "csv_updated_at", NULL)
  IN IF override_status = "not_applicable"
     THEN Matched(Decision("not_applicable", "final", NULL, "high", self.reason_code,
            [csv_override |-> override_status,
             csv_reason |-> Get(advisory_data, "override_reason", NULL),
             csv_updated_at |-> IF TruthyStr(updated) THEN Str(updated) ELSE <<>>],
            <<"Marked as not applicable by Echo security team. Reason: ",
              Get(advisory_data, "override_reason", "Internal policy"),
              ". Updated: ",
              IF TruthyStr(updated) THEN Str(updated) ELSE Str("unknown date"), ".">>,
            <<"echo_csv">>, <<>>))
     ELSE NoMatch

NvdRejectedEvaluate(self, advisory_data) ==
  LET is_rejected == Get(advisory_data, "is_rejected", FALSE)
  IN IF is_rejected
     THEN Matched(Decision("not_applicable", "final", NULL, "high", self.reason_code,
            [is_rejected |-> TRUE,
             nvd_rejection_status |-> Get(advisory_data, "nvd_rejection_status", NULL)],
            <<"This CVE has been rejected by the National Vulnerability Database.">>,
            <<"nvd">>, <<>>))
     ELSE NoMatch

\* UpstreamFixRule.evaluate testing fix_available alone.
UpstreamFixEvaluate_IgnoresVersion(self, advisory_data) ==
  LET fix_available == Get(advisory_data, "fix_available", FALSE)
      fixed_version == Get(advisory_data, "fixed_version", NULL)
  IN IF fix_available
     THEN Matched(Decision("fixed", "final", fixed_version, "high", self.reason_code,
            [fix_available |-> TRUE,
             fixed_version |-> fixed_version,
             osv_fixed_version |-> Get(advisory_data, "osv_fixed_version", NULL)],
            <<"Fixed in version ", fixed_version, ". Fix available from upstream.">>,
            ExtractSources(advisory_data), <<>>))
     ELSE NoMatch

UpstreamFixEvaluate(self, advisory_data) ==
  LET fix_available == Get(advisory_data, "fix_available", FALSE)
      fixed_version == Get(advisory_data, "fixed_version", NULL)
  IN IF fix_available /\ TruthyStr(fixed_version)
     THEN Matched(Decision("fixed", "final", fixed_version, "high", self.reason_code,
            [fix_available |-> TRUE,
             fixed_version |-> fixed_version,
             osv_fixed_version |-> Get(advisory_data, "osv_fixed_version", NULL)],
            <<"Fixed in version ", fixed_version, ". Fix available from upstream.">>,
            ExtractSources(advisory_data), <<>>))
     ELSE NoMatch

UnderInvestigationEvaluate(self, advisory_data) ==
  LET has_signal == Get(advisory_data, "has_signal", FALSE)
  IN IF ~has_signal
     THEN Matched(Decision("under_investigation", "non_final", NULL, "low", self.reason_code,
            [has_signal |-> FALSE,
             source_count |-> Get(advisory_data, "source_count", 0)],
            <<"Recently published CVE under analysis. Awaiting upstream signals.">>,
            ExtractSources(advisory_data), <<>>))
     ELSE NoMatch

\* PendingUpstreamRule.evaluate reading advisory_data['contributing_sources']
\* instead of going through _extract_sources: an absent key raises KeyError.
PendingUpstreamEvaluate_RequiresSources(self, advisory_data) ==
  IF "contributing_sources" \notin DOMAIN advisory_data THEN Raised
  ELSE Matched(Decision("pending_upstream", "non_final", NULL, "medium", self.reason_code,
         [fix_available |-> FALSE,
          cvss_score |-> Get(advisory_data, "cvss_score", NULL),
          source_count |-> Get(advisory_data, "source_count", 0)],
         <<"No fix currently available upstream. Monitoring for updates. Sources consulted: ">>
           \o JoinSources(advisory_data["contributing_sources"]) \o <<".">>,
         advisory_data["contributing_sources"], <<>>))

PendingUpstreamEvaluate(self, advisory_data) ==
  LET sources == ExtractSources(advisory_data)
  IN IF ~AllStr(sources) THEN Raised
     ELSE Matched(Decision("pending_upstream", "non_final", NULL, "medium", self.reason_code,
       [fix_available |-> FALSE,
        cvss_score |-> Get(advisory_data, "cvss_score", NULL),
        source_count |-> Get(advisory_data, "source_count", 0)],
       <<"No fix currently available upstream. Monitoring for updates. Sources consulted: ">>
         \o JoinSources(sources) \o <<".">>,
       sources, <<>>))

CustomMatchEvaluate(self, advisory_data) ==
  Matched(Decision("wont_fix", "final", NULL, "medium", self.reason_code,
    [custom |-> TRUE], <<"Custom rule.">>, ExtractSources(advisory_data), <<>>))

\* rule.evaluate(advisory_data), dispatched on the rule's class.
Evaluate(rule, advisory_data) ==
  IF ~IsMapping(advisory_data) THEN Raised
  ELSE CASE rule.kind = "CsvOverrideRule" -> CsvOverrideEvaluate(rule, advisory_data)
         [] rule.kind = "NvdRejectedRule" -> NvdRejectedEvaluate(rule, advisory_data)
         [] rule.kind = "UpstreamFixRule" -> UpstreamFixEvaluate(rule, advisory_data)
         [] rule.kind = "UnderInvestigationRule" -> UnderInvestigationEvaluate(rule, advisory_data)
         [] rule.kind = "PendingUpstreamRule" -> PendingUpstreamEvaluate(rule, advisory_data)
         [] rule.kind = "CustomMatchRule" -> CustomMatchEvaluate(rule, advisory_data)
         [] OTHER -> Raised

\* get_default_rules()
GetDefaultRules ==
  <<CsvOverrideRule, NvdRejectedRule, UpstreamFixRule,
    UnderInvestigationRule, PendingUpstreamRule>>

\* sorted(rules, key=lambda r: r.priority): a stable sort, by insertion.
RECURSIVE InsertByPriority(_, _)
InsertByPriority(sorted, rule) ==
  IF sorted = <<>> THEN <<rule>>
  ELSE IF sorted[Len(sorted)].priority <= rule.priority
  THEN Append(sorted, rule)
  ELSE Append(InsertByPriority(SubSeq(sorted, 1, Len(sorted) - 1), rule),
              sorted[Len(sorted)])

RECURSIVE SortedByPriority(_)
SortedByPriority(rules) ==
  IF rules = <<>> THEN <<>>
  ELSE InsertByPriority(SortedByPriority(SubSeq(rules, 1, Len(rules) - 1)),
                        rules[Len(rules)])

\* __init__ without the sort: the rules stay in the order handed over.
RuleEngine_Unsorted(given, rules) ==
  [rules |-> IF given /\ rules # <<>> THEN rules ELSE GetDefaultRules,
   given |-> given,
   arg |-> rules]

\* RuleEngine.__init__(rules): `rules or get_default_rules()` takes the
\* defaults for None and for an empty list.  given / arg keep the argument.
RuleEngine(given, rules) ==
  [rules |-> SortedByPriority(IF given /\ rules # <<>> THEN rules ELSE GetDefaultRules),
   given |-> given,
   arg |-> rules]

\* decision.evidence['applied_rule'] = rule.rule_id
StampAppliedRule(decision, rule_id) ==
  [decision EXCEPT !.evidence = ("applied_rule" :> rule_id) @@ decision.evidence]

\* RuleEngine.decide from the i-th rule on; `evaluated` lists the rules whose
\* evaluate was called so far, `errors` the rules whose failure was logged.
RECURSIVE DecideFrom(_, _, _, _, _)
\* decide without the try / except around rule.evaluate: a rule's exception
\* leaves decide.
DecideFrom_RaisePropagates(rules, advisory_data, i, evaluated, errors) ==
  IF i > Len(rules)
  THEN [outcome |-> "raise",
        error |-> <<"No rule matched for advisory ",
                    Get(advisory_data, "advisory_id", "unknown")>>,
        evaluated |-> evaluated, errors |-> errors]
  ELSE LET rule == rules[i]
           r == Evaluate(rule, advisory_data)
       IN IF r.outcome = "decision"
          THEN [outcome |-> "decision",
                decision |-> StampAppliedRule(r.decision, rule.rule_id),
                evaluated |-> Append(evaluated, rule.rule_id), errors |-> errors]
          ELSE IF r.outcome = "raise"
          THEN [outcome |-> "raise", error |-> <<"rule failed: ", rule.rule_id>>,
                evaluated |-> Append(evaluated, rule.rule_id), errors |-> errors]
          ELSE DecideFrom(rules, advisory_data, i + 1,
                          Append(evaluated, rule.rule_id), errors)

\* decide returning the catch-all decision when the loop ends without a match.
DecideFrom_FallsBackToPending(rules, advisory_data, i, evaluated, errors) ==
  IF i > Len(rules)
  THEN [outcome |-> "decision",
        decision |-> Decision("pending_upstream", "non_final", NULL, "medium",
                              "AWAITING_FIX", [fix_available |-> FALSE], <<>>, <<>>, <<>>),
        evaluated |-> evaluated, errors |-> errors]
  ELSE LET rule == rules[i]
           r == Evaluate(rule, advisory_data)
       IN IF r.outcome = "decision"
          THEN [outcome |-> "decision",
                decision |-> StampAppliedRule(r.decision, rule.rule_id),
                evaluated |-> Append(evaluated, rule.rule_id), errors |-> errors]
          ELSE DecideFrom(rules, advisory_data, i + 1,
                          Append(evaluated, rule.rule_id),
                          IF r.outcome = "raise"
                            THEN Append(errors, rule.rule_id) ELSE errors)

DecideFrom(rules, advisory_data, i, evaluated, errors) ==
  IF i > Len(rules)
  THEN [outcome |-> "raise",
        error |-> <<"No rule matched for advisory ",
                    Get(advisory_data, "advisory_id", "unknown")>>,
        evaluated |-> evaluated, errors |-> errors]
  ELSE LET rule == rules[i]
           r == Evaluate(rule, advisory_data)
       IN IF r.outcome = "decision"
          THEN [outcome |-> "decision",
                decision |-> StampAppliedRule(r.decision, rule.rule_id),
                evaluated |-> Append(evaluated, rule.rule_id), errors |-> errors]
          ELSE DecideFrom(rules, advisory_data, i + 1,
                          Append(evaluated, rule.rule_id),
                          IF r.outcome = "raise"
                            THEN Append(errors, rule.rule_id) ELSE errors)

\* RuleEngine.decide: advisory_data.get('advisory_id', 'unknown') comes first
\* and is outside the try.
Decide(e, advisory_data) ==
  IF ~IsMapping(advisory_data)
  THEN [outcome |-> "raise", error |-> AttributeError,
        evaluated |-> <<>>, errors |-> <<>>]
  ELSE DecideFrom(e.rules, advisory_data, 1, <<>>, <<>>)

\* _create_error_decision labelling its Decision final.
CreateErrorDecision_Final(advisory_data, error) ==
  Decision("unknown", "final", NULL, "low", "ERROR",
           [error |-> error, advisory_id |-> Get(advisory_data, "advisory_id", NULL)],
           <<"Error processing advisory: ">> \o error, <<>>, <<>>)

\* RuleEngine._create_error_decision
CreateErrorDecision(advisory_data, error) ==
  Decision("unknown", "non_final", NULL, "low", "ERROR",
           [error |-> error, advisory_id |-> Get(advisory_data, "advisory_id", NULL)],
           <<"Error processing advisory: ">> \o error, <<>>, <<>>)

\* RuleEngine.decide_batch from the i-th record on.  The except block formats
\* advisory.get('advisory_id') into its log message and hands the record to
\* _create_error_decision: on a record without .get the handler itself raises
\* and the exception leaves decide_batch.
RECURSIVE DecideBatchFrom(_, _, _, _)
DecideBatchFrom(e, advisories, i, decisions) ==
  IF i > Len(advisories)
  THEN [outcome |-> "return", decisions |-> decisions]
  ELSE LET advisory == advisories[i]
           r == Decide(e, advisory)
       IN IF r.outcome = "decision"
          THEN DecideBatchFrom(e, advisories, i + 1, Append(decisions, r.decision))
          ELSE IF ~IsMapping(advisory)
          THEN [outcome |-> "raise", error |-> AttributeError, decisions |-> decisions]
          ELSE DecideBatchFrom(e, advisories, i + 1,
                 Append(decisions, CreateErrorDecision(advisory, r.error)))

DecideBatch(e, advisories) == DecideBatchFrom(e, advisories, 1, <<>>)

\* RuleEngine.explain_decision from the i-th rule on: every rule is
\* evaluated; matched_decision (<<>> is None) is the first Decision, stamped.
RECURSIVE ExplainFrom(_, _, _, _, _)
\* explain_decision leaving its loop at the first match, as decide does.
ExplainFrom_StopsAtMatch(rules, advisory_data, i, trace, matched_decision) ==
  IF i > Len(rules) \/ matched_decision # <<>>
  THEN IF ~IsMapping(advisory_data)
       THEN [outcome |-> "raise", error |-> AttributeError]
       ELSE [outcome |-> "return",
             advisory_id |-> Get(advisory_data, "advisory_id", NULL),
             decision |-> matched_decision,
             evaluation_trace |-> trace,
             total_rules_evaluated |-> Len(trace)]
  ELSE LET rule == rules[i]
           r == Evaluate(rule, advisory_data)
       IN IF r.outcome = "raise"
          THEN ExplainFrom(rules, advisory_data, i + 1,
                 Append(trace, [rule_id |-> rule.rule_id, priority |-> rule.priority,
                                matched |-> FALSE, error |-> "raised"]),
                 matched_decision)
          ELSE ExplainFrom(rules, advisory_data, i + 1,
                 Append(trace, [rule_id |-> rule.rule_id, priority |-> rule.priority,
                                matched |-> r.outcome = "decision",
                                result |-> IF r.outcome = "decision"
                                             THEN r.decision.state ELSE NULL]),
                 IF r.outcome = "decision" /\ matched_decision = <<>>
                   THEN <<StampAppliedRule(r.decision, rule.rule_id)>>
                   ELSE matched_decision)

ExplainFrom(rules, advisory_data, i, trace, matched_decision) ==
  IF i > Len(rules)
  THEN IF ~IsMapping(advisory_data)
       THEN [outcome |-> "raise", error |-> AttributeError]
       ELSE [outcome |-> "return",
             advisory_id |-> Get(advisory_data, "advisory_id", NULL),
             decision |-> matched_decision,
             evaluation_trace |-> trace,
             total_rules_evaluated |-> Len(trace)]
  ELSE LET rule == rules[i]
           r == Evaluate(rule, advisory_data)
       IN IF r.outcome = "raise"
          THEN ExplainFrom(rules, advisory_data, i + 1,
                 Append(trace, [rule_id |-> rule.rule_id, priority |-> rule.priority,
                                matched |-> FALSE, error |-> "raised"]),
                 matched_decision)
          ELSE ExplainFrom(rules, advisory_data, i + 1,
                 Append(trace, [rule_id |-> rule.rule_id, priority |-> rule.priority,
                                matched |-> r.outcome = "decision",
                                result |-> IF r.outcome = "decision"
                                             THEN r.decision.state ELSE NULL]),
                 IF r.outcome = "decision" /\ matched_decision = <<>>
                   THEN <<StampAppliedRule(r.decision, rule.rule_id)>>
                   ELSE matched_decision)

ExplainDecision(e, advisory_data) == ExplainFrom(e.rules, advisory_data, 1, <<>>, <<>>)


\* The rule lists the model builds: every arrangement of at most MaxRules
\* rules.
RECURSIVE RuleLists(_)
RuleLists(n) ==
  IF n = 0 THEN {<<>>}
  ELSE LET shorter == RuleLists(n - 1)
       IN shorter \cup {Append(l, r) : l \in {x \in shorter : Len(x) = n - 1},
                                        r \in {CsvOverrideRule, NvdRejectedRule,
                                                UpstreamFixRule,
                                                UnderInvestigationRule,
                                                PendingUpstreamRule,
                                                CustomMatchRule,
                                                CustomRaisingRule}}

Engines ==
  {RuleEngine(FALSE, <<>>)}
    \cup {RuleEngine(TRUE, l) :
            l \in {x \in RuleLists(MaxRules) :
                     \A i, j \in 1..Len(x) : i # j => x[i] # x[j]}}

\* The records handed to decide_batch: the three of the batch tests, each
\* matching a different default rule, a dict whose contributing_sources holds
\* a non-str item, a fix announced with an empty fixed_version, and a record
\* that is not a dict.
RecordCsv == [advisory_id |-> "adv1", override_status |-> "not_applicable", override_reason |-> "Test"]
RecordFix == [advisory_id |-> "adv3", fix_available |-> TRUE, fixed_version |-> "1.0.0"]
RecordBadSources == [advisory_id |-> "adv4", has_signal |-> TRUE, contributing_sources |-> <<"<int 1>">>]
Records ==
  {RecordCsv,
   [advisory_id |-> "adv2", is_rejected |-> TRUE],
   RecordFix,
   RecordBadSources,
   [advisory_id |-> "adv5", fix_available |-> TRUE, fixed_version |-> ""],
   NotAMapping}

\* Largest number of records in a batch.
MaxBatch == 2

RECURSIVE BatchesOf(_)
BatchesOf(n) ==
  IF n = 0 THEN {<<>>}
  ELSE LET shorter == BatchesOf(n - 1)
       IN shorter \cup {Append(b, r) : b \in {x \in shorter : Len(x) = n - 1},
                                        r \in Records}


\* The engines decide_batch runs on: the default rules, a rule list without
\* catch-all rule, a list with a rule that raises, and a list handed over
\* out of priority order.
BatchEngines ==
  {RuleEngine(FALSE, <<>>),
   RuleEngine(TRUE, <<NvdRejectedRule>>),
   RuleEngine(TRUE, <<UpstreamFixRule, CustomRaisingRule>>),
   RuleEngine(TRUE, <<PendingUpstreamRule, CsvOverrideRule>>)}

(***************************************************************************)
(* DecisionExplainer (decisioning/explainer.py).                           *)
(***************************************************************************)
\* A Python value of an evidence dict: its type, its str(), and the items of
\* a list.
PyNone == [type |-> "NoneType", str |-> "None", items |-> <<>>]
PyStr(text) == [type |-> "str", str |-> text, items |-> <<>>]
PyInt(digits) == [type |-> "int", str |-> digits, items |-> <<>>]
PyList(items, repr) == [type |-> "list", str |-> repr, items |-> items]
PyDict(repr) == [type |-> "dict", str |-> repr, items |-> <<>>]

\* Truth value of a Python value.
Truthy(value) ==
  CASE value.type = "NoneType" -> FALSE
    [] value.type = "str" -> value.str # ""
    [] value.type = "int" -> value.str # "0"
    [] value.type = "list" -> value.items # <<>>
    [] value.type = "dict" -> value.str # "{}"

\* A template is a sequence of literal texts and {variables}.
Lit(text) == [kind |-> "lit", v |-> text]
Var(name) == [kind |-> "var", v |-> name]

DEFAULT_TEMPLATES ==
  [CSV_OVERRIDE |-> <<Lit("Marked as not applicable by Echo security team. Reason: "),
                      Var("csv_reason"), Lit(". Updated: "), Var("csv_updated_at"), Lit(".")>>,
   NVD_REJECTED |-> <<Lit("This CVE has been rejected by the National Vulnerability Database.")>>,
   UPSTREAM_FIX |-> <<Lit("Fixed in version "), Var("fixed_version"),
                      Lit(". Fix available from upstream.")>>,
   DISTRO_NOT_AFFECTED |-> <<Lit("Not affected in "), Var("distro"), Lit(". Reason: "),
                             Var("distro_notes"), Lit(".")>>,
   DISTRO_WONT_FIX |-> <<Var("distro"), Lit(" has marked this as will not fix. Reason: "),
                         Var("distro_notes"), Lit(".")>>,
   NEW_CVE |-> <<Lit("Recently published CVE under analysis. Awaiting upstream signals.")>>,
   AWAITING_FIX |-> <<Lit("No fix currently available upstream. Sources consulted: "),
                      Var("sources_list"), Lit(".")>>,
   ERROR |-> <<Lit("Unable to determine status. Error: "), Var("error")>>,
   DEFAULT |-> <<Lit("Status determined by enrichment pipeline.")>>]


\* DecisionExplainer.__init__: `templates or DEFAULT_TEMPLATES` takes the
\* defaults for None and for an empty dict.
DecisionExplainer(templates) ==
  [templates |-> IF templates.given /\ DOMAIN templates.map # {}
                   THEN templates.map ELSE DEFAULT_TEMPLATES]

\* datetime.fromisoformat(updated.replace('Z', '+00:00')).strftime('%Y-%m-%d')
\* for the strings that parse; every other string raises ValueError.
IsoDates ==
  [s \in {"2024-01-15T14:30:00Z", "2024-01-15"} |-> "2024-01-15"]

\* ', '.join(sources) of a list of str items.
RECURSIVE Join(_)
Join(items) ==
  IF items = <<>> THEN <<>>
  ELSE IF Len(items) = 1 THEN <<items[1].str>>
  ELSE <<items[1].str, ", ">> \o Join(Tail(items))

\* The defaults _prepare_values adds for keys that are still missing.
ValueDefaults ==
  [csv_reason |-> "Internal policy", csv_updated_at |-> "unknown date",
   nvd_rejection_reason |-> "Not specified", fixed_version |-> "unknown",
   fix_source |-> "upstream", fix_url |-> "Not available", distro |-> "unknown",
   distro_notes |-> "Not specified", first_seen |-> "unknown",
   last_checked |-> "unknown", sources_list |-> "none", error |-> "Unknown error"]

\* _prepare_values: the substitution values (each the parts of a string), or
\* the TypeError ', '.join raises on a sources list holding a non-str item.
PrepareValues(evidence, fixed_version) ==
  LET converted == [k \in DOMAIN evidence \cup {"fixed_version"} |->
                      IF k = "fixed_version"
                        THEN <<IF TruthyStr(fixed_version) THEN fixed_version ELSE "unknown">>
                      ELSE IF evidence[k].type = "NoneType" THEN <<"unknown">>
                      ELSE <<evidence[k].str>>]
      updated == converted["csv_updated_at"][1]
      dated == IF "csv_updated_at" \in DOMAIN converted
                 THEN [converted EXCEPT !["csv_updated_at"] =
                         IF updated # "" /\ updated # "unknown" /\ updated # "None"
                           THEN IF updated \in DOMAIN IsoDates
                                  THEN <<IsoDates[updated]>> ELSE <<updated>>
                           ELSE <<"unknown date">>]
                 ELSE converted
      sources == evidence["contributing_sources"]
      listed == IF "contributing_sources" \in DOMAIN evidence
                  THEN ("sources_list" :>
                          IF sources.type = "list"
                            THEN IF sources.items # <<>> THEN Join(sources.items) ELSE <<"none">>
                            ELSE IF Truthy(sources) THEN <<sources.str>> ELSE <<"none">>)
                       @@ dated
                  ELSE dated
  IN IF /\ "contributing_sources" \in DOMAIN evidence
        /\ sources.type = "list"
        /\ \E i \in 1..Len(sources.items) : sources.items[i].type # "str"
     THEN [outcome |-> "raise", error |-> "TypeError"]
     ELSE [outcome |-> "ok",
           values |-> [k \in DOMAIN listed \cup DOMAIN ValueDefaults |->
                         IF k \in DOMAIN listed THEN listed[k] ELSE <<ValueDefaults[k]>>]]

\* template.format(**values): KeyError on a variable without a value.
RECURSIVE Format(_, _)
Format(template, values) ==
  IF template = <<>> THEN <<>>
  ELSE (IF template[1].kind = "lit" THEN <<template[1].v>> ELSE values[template[1].v])
         \o Format(Tail(template), values)

MissingVariables(template, values) ==
  {template[i].v : i \in {j \in 1..Len(template) : template[j].kind = "var"}}
    \ DOMAIN values

\* str.strip() of a string given by its parts: empty and blank parts at
\* either end go.
RECURSIVE Strip(_)
Strip(parts) ==
  IF parts = <<>> THEN <<>>
  ELSE IF parts[1] \in {"", " "} THEN Strip(Tail(parts))
  ELSE IF parts[Len(parts)] \in {"", " "} THEN Strip(SubSeq(parts, 1, Len(parts) - 1))
  ELSE parts

\* _create_fallback_explanation
CreateFallbackExplanation(reason_code, evidence) ==
  <<"Advisory classified as ",
    IF "state" \in DOMAIN evidence THEN evidence["state"].str ELSE "unknown",
    ". Reason: ", reason_code, ".">>

\* self.templates.get(reason_code, self.templates.get('DEFAULT', ''))
SelectTemplate(x, reason_code) ==
  IF reason_code \in DOMAIN x.templates THEN x.templates[reason_code]
  ELSE IF "DEFAULT" \in DOMAIN x.templates THEN x.templates["DEFAULT"]
  ELSE <<>>

\* DecisionExplainer.explain: _prepare_values runs outside the try, and the
\* except clause catches KeyError only.
Explain(x, reason_code, evidence, fixed_version) ==
  LET template == SelectTemplate(x, reason_code)
      prepared == PrepareValues(evidence, fixed_version)
  IN IF prepared.outcome = "raise"
     THEN [outcome |-> "raise", error |-> prepared.error]
     ELSE IF MissingVariables(template, prepared.values) # {}
     THEN [outcome |-> "return", fallback |-> TRUE,
           text |-> CreateFallbackExplanation(reason_code, evidence)]
     ELSE [outcome |-> "return", fallback |-> FALSE,
           text |-> Strip(Format(template, prepared.values))]

\* The evidence dicts handed to explain: empty, None values, a timestamp that
\* parses and one that does not, sources as a list of str, an empty list, a
\* str, a list holding a non-str item, and list / dict / int values.
Evidences ==
  {[k \in {} |-> PyNone],
   [csv_reason |-> PyNone, csv_updated_at |-> PyNone],
   [csv_reason |-> PyStr("Test"), csv_updated_at |-> PyStr("2024-01-15T14:30:00Z")],
   [csv_reason |-> PyStr("Test"), csv_updated_at |-> PyStr("yesterday")],
   [contributing_sources |-> PyList(<<PyStr("nvd"), PyStr("osv")>>, "['nvd', 'osv']")],
   [contributing_sources |-> PyList(<<>>, "[]")],
   [contributing_sources |-> PyStr("osv")],
   [contributing_sources |-> PyList(<<PyStr("osv"), PyInt("1")>>, "['osv', 1]")],
   [error |-> PyStr("boom"), state |-> PyStr("pending_upstream")],
   [distro |-> PyDict("{'name': 'debian'}"), distro_notes |-> PyList(<<PyInt("1")>>, "[1]"),
    source_count |-> PyInt("0")]}


\* The templates arguments: None, an empty dict, a dict with a DEFAULT entry,
\* and a dict without one whose template names a variable of its own.
TemplateArgs ==
  {[given |-> FALSE, map |-> DEFAULT_TEMPLATES],
   [given |-> TRUE, map |-> [k \in {} |-> <<>>]],
   [given |-> TRUE, map |-> [UPSTREAM_FIX |-> <<Lit("Patched in "), Var("fixed_version"), Lit(".")>>,
                             DEFAULT |-> <<Lit("See advisory.")>>]],
   [given |-> TRUE, map |-> [UPSTREAM_FIX |-> <<Lit("Patched by "), Var("patch_id"), Lit(".")>>]]}


(***************************************************************************)
(* CircuitBreaker and HttpClient._request (ingestion/http_client.py).      *)
(***************************************************************************)
\* None in _opened_at (time.monotonic() readings start at 0).
NoTime == 0 - 1

\* CircuitBreaker.__init__
CircuitBreaker(failure_threshold, open_seconds) ==
  [failure_threshold |-> failure_threshold,
   open_seconds |-> open_seconds,
   failure_count |-> 0,
   opened_at |-> NoTime,
   half_open |-> FALSE]

\* can_attempt granting a probe whenever open_seconds have elapsed, without
\* the _half_open flag.
CanAttempt_EveryProbe(b, now) ==
  IF b.opened_at = NoTime THEN [result |-> TRUE, breaker |-> b]
  ELSE IF now - b.opened_at >= b.open_seconds
  THEN [result |-> TRUE, breaker |-> b]
  ELSE [result |-> FALSE, breaker |-> b]

\* can_attempt: what it returns and the breaker it leaves.
CanAttempt(b, now) ==
  IF b.opened_at = NoTime THEN [result |-> TRUE, breaker |-> b]
  ELSE IF now - b.opened_at >= b.open_seconds
  THEN IF ~b.half_open
       THEN [result |-> TRUE, breaker |-> [b EXCEPT !.half_open = TRUE]]
       ELSE [result |-> FALSE, breaker |-> b]
  ELSE [result |-> FALSE, breaker |-> b]

\* record_success leaving _failure_count as it is.
RecordSuccess_KeepsCount(b) ==
  [b EXCEPT !.opened_at = NoTime, !.half_open = FALSE]

\* record_success
RecordSuccess(b) ==
  [b EXCEPT !.failure_count = 0, !.opened_at = NoTime, !.half_open = FALSE]

\* record_failure
RecordFailure(b, now) ==
  LET counted == [b EXCEPT !.failure_count = @ + 1]
  IN IF counted.failure_count >= counted.failure_threshold
     THEN [counted EXCEPT !.opened_at = now, !.half_open = FALSE]
     ELSE counted

\* RetryConfig: max_retries decides the number of attempts; the delays only
\* decide how long _sleep_with_backoff sleeps.
RetryConfig(max_retries) == [max_retries |-> max_retries]

RETRYABLE_STATUS_CODES == {429, 500, 502, 503, 504}

\* What one session.request call does: raise requests.RequestException, or
\* return a response with a status code and a Retry-After header ("" when
\* the header is absent).
Response(status_code, retry_after) ==
  [exception |-> FALSE, status_code |-> status_code, retry_after |-> retry_after]

AttemptOutcomes ==
  {[exception |-> TRUE, status_code |-> 0, retry_after |-> ""],
   Response(200, ""), Response(404, ""), Response(503, ""),
   Response(429, "30"), Response(503, "inf")}

\* _retry_after_seconds: None without the header, else float(value);
\* float("inf") is a float.
RetryAfterSeconds(response) ==
  IF response.retry_after = "" THEN NULL ELSE response.retry_after

\* _sleep_with_backoff: delay = max(delay, retry_after), and time.sleep of an
\* infinite delay raises OverflowError.
SleepWithBackoff(attempt, retry_after) ==
  IF retry_after = "inf" THEN "OverflowError" ELSE "slept"

RequestResult(outcome, error, attempts, records, permitted, b) ==
  [outcome |-> outcome, error |-> error, attempts |-> attempts,
   records |-> records, permitted |-> permitted, breaker |-> b]

\* The for loop of _request from `attempt` on; `now` is the time at which an
\* outcome is recorded.  `attempts` counts the session.request calls,
\* `records` lists the record_success / record_failure calls.
RECURSIVE RequestLoop(_, _, _, _, _)
RequestLoop(b, config, responses, attempt, now) ==
  IF attempt > config.max_retries
  THEN RequestResult("raise", "RuntimeError", attempt, <<"failure">>, TRUE,
                     RecordFailure(b, now))
  ELSE LET response == responses[attempt + 1]
       IN IF response.exception
          THEN IF attempt < config.max_retries
               THEN RequestLoop(b, config, responses, attempt + 1, now)
               ELSE RequestResult("raise", "RequestException", attempt + 1,
                                  <<"failure">>, TRUE, RecordFailure(b, now))
          ELSE IF response.status_code \in RETRYABLE_STATUS_CODES
          THEN IF attempt < config.max_retries
               THEN IF SleepWithBackoff(attempt, RetryAfterSeconds(response))
                         = "OverflowError"
                    THEN RequestResult("raise", "OverflowError", attempt + 1,
                                       <<>>, TRUE, b)
                    ELSE RequestLoop(b, config, responses, attempt + 1, now)
               ELSE RequestResult("raise", "HTTPError", attempt + 1,
                                  <<"failure">>, TRUE, RecordFailure(b, now))
          ELSE IF response.status_code >= 400
          THEN RequestResult("raise", "HTTPError", attempt + 1, <<"failure">>,
                             TRUE, RecordFailure(b, now))
          ELSE RequestResult("return", NULL, attempt + 1, <<"success">>, TRUE,
                             RecordSuccess(b))

(***************************************************************************)
(* SourceLoader (storage/loader.py) over the raw landing tables            *)
(* (storage/database.py).                                                  *)
(***************************************************************************)
LoadTables ==
  {"raw_echo_advisories", "raw_echo_csv", "raw_nvd_observations",
   "raw_osv_observations"}

\* dataclass SourceObservation: the fields the loaders read.
SourceObservation(observation_id, cve_id, package_name) ==
  [observation_id |-> observation_id, cve_id |-> cve_id,
   package_name |-> package_name, observed_at |-> 1,
   source_updated_at |-> NullTime, raw_payload |-> <<>>, status |-> NULL,
   cvss_score |-> NULL, cvss_vector |-> NULL, rejection_status |-> NULL,
   fix_available |-> NULL, fixed_version |-> NULL, references |-> <<>>,
   notes |-> NULL]

\* Lists of at most n of the observations of the loader tests.
RECURSIVE ObservationLists(_)
ObservationLists(n) ==
  IF n = 0 THEN {<<>>}
  ELSE LET shorter == ObservationLists(n - 1)
       IN shorter \cup {Append(l, o) : l \in {x \in shorter : Len(x) = n - 1},
                                        o \in {SourceObservation("obs_001", "CVE-2024-0001", "pkg1"),
                                                SourceObservation("obs_002", "CVE-2024-0002", "pkg2")}}

\* The row each loader inserts for an observation.
RawRow(table, obs, run_id) ==
  CASE table = "raw_echo_advisories" ->
         [observation_id |-> obs.observation_id, cve_id |-> obs.cve_id,
          package_name |-> obs.package_name, observed_at |-> obs.observed_at,
          raw_payload |-> JsonDumps(obs.raw_payload), status |-> obs.status,
          cvss_score |-> obs.cvss_score, notes |-> obs.notes, run_id |-> run_id]
    [] table = "raw_echo_csv" ->
         [observation_id |-> obs.observation_id, cve_id |-> obs.cve_id,
          package_name |-> obs.package_name, observed_at |-> obs.observed_at,
          source_updated_at |-> obs.source_updated_at,
          raw_payload |-> JsonDumps(obs.raw_payload), status |-> obs.status,
          reason |-> obs.notes, run_id |-> run_id]
    [] table = "raw_nvd_observations" ->
         [observation_id |-> obs.observation_id, cve_id |-> obs.cve_id,
          observed_at |-> obs.observed_at,
          raw_payload |-> JsonDumps(obs.raw_payload),
          rejection_status |-> obs.rejection_status,
          cvss_score |-> obs.cvss_score, cvss_vector |-> obs.cvss_vector,
          references |-> IF obs.references # <<>>
                         THEN JsonDumps(obs.references) ELSE <<>>, notes |-> obs.notes,
          run_id |-> run_id]
    [] table = "raw_osv_observations" ->
         [observation_id |-> obs.observation_id, cve_id |-> obs.cve_id,
          package_name |-> obs.package_name, observed_at |-> obs.observed_at,
          raw_payload |-> JsonDumps(obs.raw_payload),
          fix_available |-> obs.fix_available,
          fixed_version |-> obs.fixed_version,
          references |-> IF obs.references # <<>>
                         THEN JsonDumps(obs.references) ELSE <<>>, notes |-> obs.notes,
          run_id |-> run_id]

\* The INSERT loop of a loader from the i-th observation on: observation_id
\* is the PRIMARY KEY of every raw table, and an INSERT of an observation_id
\* the table holds raises, leaving the rows inserted so far.
RECURSIVE InsertObservations(_, _, _, _, _)
InsertObservations(table, table_rows, observations, run_id, i) ==
  IF i > Len(observations)
  THEN [outcome |-> "return", loaded |-> i - 1, rows |-> table_rows]
  ELSE LET row == RawRow(table, observations[i], run_id)
       IN IF \E r \in table_rows : r.observation_id = row.observation_id
          THEN [outcome |-> "raise", loaded |-> i - 1, rows |-> table_rows]
          ELSE InsertObservations(table, table_rows \cup {row}, observations,
                                  run_id, i + 1)

(***************************************************************************)
(* State.                                                                  *)
(***************************************************************************)
VARIABLES
  rows,    \* table advisory_state_history: a set of row records
  clock,   \* the reading datetime.utcnow() returns now
  last,    \* the last completed call: its arguments and what it returned
  pc,      \* per thread: position inside a running apply_state
  arg,     \* per thread: <<new_state, run_id>> of the running apply_state
  cur,     \* per thread: local `current` (<<>> is None, <<row>> a row)
  tnow,    \* per thread: local `now`
  ncalls,  \* number of apply_state calls the threads have begun
  sm,      \* the AdvisoryStateMachine: final_states, non_final_states, all_states
  engine,  \* the RuleEngine: rules (sorted); given/arg is what __init__ received
  decided  \* history: <<>>, or the first decide call on a record of Records,
           \* what it returned, and what was called since ("first": nothing,
           \* "other": other calls, "again": then decide on that record again)
VARIABLES
  breaker,      \* the CircuitBreaker: its parameters and private fields
  monotonic,    \* the reading time.monotonic() returns now
  audit,        \* history of the breaker: failures since the last success,
                \* when the breaker opened, probes granted, permission pending
  retry_config, \* the HttpClient's RetryConfig
  raw,          \* the raw landing tables: table name -> set of rows
  nloads        \* number of load calls made

vars == <<rows, clock, last, pc, arg, cur, tnow, ncalls, sm, engine, decided,
          breaker, monotonic, audit, retry_config, raw, nloads>>
storeVars == <<rows, clock, pc, arg, cur, tnow, ncalls>>
ioVars == <<breaker, monotonic, audit, retry_config, raw, nloads>>

\* The history of a breaker nothing has been recorded on.
\* `streak` counts the failures recorded since the last success, `opening_at`
\* is the time of the failure that opened the breaker, `failed_at` the time
\* of the latest failure, `granted` the probes granted since that failure,
\* `pending` whether a permission was given whose outcome is not recorded.
NoAudit ==
  [streak |-> 0, opening_at |-> NoTime, failed_at |-> NoTime,
   granted |-> 0, pending |-> FALSE]

\* The ingestion side as constructed and not used.
InitIO ==
  /\ breaker = CircuitBreaker(5, 900)
  /\ monotonic = 0
  /\ audit = NoAudit
  /\ retry_config = RetryConfig(5)
  /\ raw = [table \in LoadTables |-> {}]
  /\ nloads = 0

(***************************************************************************)
(* SCD2Manager.                                                            *)
(***************************************************************************)
\* history_id hashed from the timestamp alone.
HistoryId_TimeOnly(advisory_id, now) == <<"", now>>

\* history_id = md5(f"{advisory_id}:{now.isoformat()}").hexdigest()[:16],
\* a function of the pair (advisory_id, now) and of nothing else.
HistoryId(advisory_id, now) == <<advisory_id, now>>

\* get_current_state: fetchone() over the rows WHERE advisory_id = ? AND
\* is_current = TRUE; the set of values the call may return.
GetCurrentState(table, advisory_id) ==
  LET hits == {r \in table : r.advisory_id = advisory_id /\ r.is_current}
  IN IF hits = {} THEN {<<>>} ELSE {<<r>> : r \in hits}

\* has_state_changed with the confidence test inverted (== for !=).
HasStateChanged_ConfidenceInverted(current, new_state) ==
  IF current = <<>> THEN TRUE
  ELSE IF current[1].state # new_state.state THEN TRUE
  ELSE IF current[1].fixed_version # new_state.fixed_version THEN TRUE
  ELSE IF current[1].confidence = new_state.confidence THEN TRUE
  ELSE IF current[1].reason_code # new_state.reason_code THEN TRUE
  ELSE FALSE

HasStateChanged(current, new_state) ==
  IF current = <<>> THEN TRUE
  ELSE IF current[1].state # new_state.state THEN TRUE
  ELSE IF current[1].fixed_version # new_state.fixed_version THEN TRUE
  ELSE IF current[1].confidence # new_state.confidence THEN TRUE
  ELSE IF current[1].reason_code # new_state.reason_code THEN TRUE
  ELSE FALSE

\* The UPDATE without `advisory_id = ?` in its WHERE clause.
CloseCurrent_AnyAdvisory(table, advisory_id, now) ==
  {IF r.is_current
     THEN [r EXCEPT !.is_current = FALSE, !.effective_to = now]
     ELSE r : r \in table}

\* UPDATE ... SET is_current = FALSE, effective_to = now
\* WHERE advisory_id = ? AND is_current = TRUE
CloseCurrent(table, advisory_id, now) ==
  {IF r.advisory_id = advisory_id /\ r.is_current
     THEN [r EXCEPT !.is_current = FALSE, !.effective_to = now]
     ELSE r : r \in table}

\* The row of INSERT INTO advisory_state_history ... VALUES (...).
NewRow(new_state, run_id, now) ==
  [history_id |-> HistoryId(new_state.advisory_id, now),
   advisory_id |-> new_state.advisory_id,
   cve_id |-> new_state.cve_id,
   package_name |-> new_state.package_name,
   state |-> new_state.state,
   state_type |-> new_state.state_type,
   fixed_version |-> new_state.fixed_version,
   confidence |-> new_state.confidence,
   explanation |-> new_state.explanation,
   reason_code |-> new_state.reason_code,
   evidence |-> JsonDumps(new_state.evidence),
   decision_rule |-> new_state.decision_rule,
   contributing_sources |-> JsonDumps(new_state.contributing_sources),
   dissenting_sources |-> JsonDumps(new_state.dissenting_sources),
   effective_from |-> now,
   effective_to |-> NullTime,
   is_current |-> TRUE,
   run_id |-> run_id,
   staleness_score |-> new_state.staleness_score]

\* history_id VARCHAR PRIMARY KEY: the INSERT is rejected (an exception is
\* raised) when a row with the same history_id exists.
PrimaryKeyViolation(table, row) == \E r \in table : r.history_id = row.history_id

\* The point-in-time SELECT with `effective_to >= ?` for `effective_to > ?`.
StateAtTimeRows_InclusiveEnd(table, advisory_id, point_in_time) ==
  {r \in table : /\ r.advisory_id = advisory_id
                 /\ r.effective_from <= point_in_time
                 /\ (r.effective_to = NullTime \/ r.effective_to >= point_in_time)}

\* get_state_at_time: fetchone() over the rows WHERE advisory_id = ? AND
\* effective_from <= ? AND (effective_to IS NULL OR effective_to > ?).
StateAtTimeRows(table, advisory_id, point_in_time) ==
  {r \in table : /\ r.advisory_id = advisory_id
                 /\ r.effective_from <= point_in_time
                 /\ (r.effective_to = NullTime \/ r.effective_to > point_in_time)}

GetStateAtTimeResults(table, advisory_id, point_in_time) ==
  LET hits == StateAtTimeRows(table, advisory_id, point_in_time)
  IN IF hits = {} THEN {<<>>} ELSE {<<r>> : r \in hits}

\* get_history: SELECT ... WHERE advisory_id = ? ORDER BY effective_from ASC,
\* as a sequence (no two rows of an advisory share effective_from, see
\* HistoryId and PrimaryKeyViolation).
GetHistory(table, advisory_id) ==
  LET rs == {r \in table : r.advisory_id = advisory_id}
  IN [i \in 1..Cardinality(rs) |->
        CHOOSE r \in rs :
          Cardinality({q \in rs : q.effective_from < r.effective_from}) = i - 1]

\* count_state_changes counting only the rows that are still current.
CountStateChanges_CurrentOnly(table, run_id) ==
  Cardinality({r \in table : r.run_id = run_id /\ r.is_current})

\* count_state_changes: SELECT COUNT(*) ... WHERE run_id = ?
CountStateChanges(table, run_id) ==
  Cardinality({r \in table : r.run_id = run_id})

\* What a completed apply_state leaves in `last`; `first` tells whether the
\* advisory had no row at all when the call began.
ApplyRecord(new_state, run_id, result, first) ==
  [op |-> "apply_state", new_state |-> new_state, run_id |-> run_id,
   result |-> result, first |-> first]

NoRows(table, advisory_id) == ~\E r \in table : r.advisory_id = advisory_id

Init ==
  /\ rows = {}
  /\ clock = 1
  /\ last = [op |-> "init"]
  /\ pc = [t \in Threads |-> "idle"]
  /\ arg = [t \in Threads |-> <<>>]
  /\ cur = [t \in Threads |-> <<>>]
  /\ tnow = [t \in Threads |-> NullTime]
  /\ ncalls = 0
  /\ sm = AdvisoryStateMachine(NoConfig)
  /\ engine = RuleEngine(FALSE, <<>>)
  /\ decided = <<>>
  /\ InitIO

\* The wall clock advances between two readings, or does not.
Tick ==
  /\ clock < MaxClock
  /\ clock' = clock + 1
  /\ UNCHANGED <<rows, last, pc, arg, cur, tnow, ncalls>>
  /\ UNCHANGED <<sm, engine, decided>>
  /\ UNCHANGED ioVars

\* apply_state run to completion.
ApplyState(new_state, run_id) ==
  /\ \E current \in GetCurrentState(rows, new_state.advisory_id) :
       IF ~HasStateChanged(current, new_state)
       THEN /\ rows' = rows
            /\ last' = ApplyRecord(new_state, run_id, "no_change", FALSE)
       ELSE LET now == clock
                closed == IF current # <<>>
                            THEN CloseCurrent(rows, new_state.advisory_id, now)
                            ELSE rows
                row == NewRow(new_state, run_id, now)
            IN IF PrimaryKeyViolation(closed, row)
               THEN /\ rows' = closed
                    /\ last' = ApplyRecord(new_state, run_id, "raised",
                                           NoRows(rows, new_state.advisory_id))
               ELSE /\ Cardinality(closed) < MaxRows
                    /\ rows' = closed \cup {row}
                    /\ last' = ApplyRecord(new_state, run_id, "changed",
                                           NoRows(rows, new_state.advisory_id))
  /\ UNCHANGED <<clock, pc, arg, cur, tnow, ncalls>>
  /\ UNCHANGED <<sm, engine, decided>>
  /\ UNCHANGED ioVars

\* get_state_at_time run to completion.
GetStateAtTime(advisory_id, point_in_time) ==
  /\ \E result \in GetStateAtTimeResults(rows, advisory_id, point_in_time) :
       last' = [op |-> "get_state_at_time", advisory_id |-> advisory_id,
                point_in_time |-> point_in_time, result |-> result]
  /\ UNCHANGED <<rows, clock, pc, arg, cur, tnow, ncalls>>
  /\ UNCHANGED <<sm, engine, decided>>
  /\ UNCHANGED ioVars

Next ==
  \/ Tick
  \/ \E new_state \in Candidates, run_id \in RunIds : ApplyState(new_state, run_id)
  \/ \E advisory_id \in Advisories, point_in_time \in Times :
       GetStateAtTime(advisory_id, point_in_time)

Spec == Init /\ [][Next]_vars

(***************************************************************************)
(* The orchestrator of the specification: it reads the advisory's current  *)
(* persisted state, asks validate_transition (allow_regressions = False)   *)
(* and calls apply_state only when the transition is valid.                *)
(***************************************************************************)
\* The decisions the orchestrator receives: one non-final state and two
\* final states.
OrchTemplates ==
  { [name |-> "pending", state |-> "pending_upstream", state_type |-> "non_final",
     fixed_version |-> NULL, confidence |-> "medium", reason_code |-> "AWAITING_FIX",
     explanation |-> "No fix currently available upstream.",
     evidence |-> [fix_available |-> FALSE, source_count |-> 1],
     decision_rule |-> "R6", contributing_sources |-> <<"nvd">>],
    [name |-> "fixed", state |-> "fixed", state_type |-> "final",
     fixed_version |-> "1.2.3", confidence |-> "high", reason_code |-> "UPSTREAM_FIX",
     explanation |-> "Fixed in version 1.2.3.",
     evidence |-> [fix_available |-> TRUE, source_count |-> 1],
     decision_rule |-> "R2", contributing_sources |-> <<"nvd">>],
    [name |-> "not_applicable", state |-> "not_applicable", state_type |-> "final",
     fixed_version |-> NULL, confidence |-> "high", reason_code |-> "CSV_OVERRIDE",
     explanation |-> "Marked as not applicable.",
     evidence |-> [fix_available |-> FALSE, source_count |-> 1],
     decision_rule |-> "R0", contributing_sources |-> <<"nvd">>] }


\* The state column of what get_current_state returned (None without a row).
CurrentStateOf(current) == IF current = <<>> THEN NULL ELSE current[1].state

Orchestrate(new_state, run_id) ==
  \E current \in GetCurrentState(rows, new_state.advisory_id) :
    IF ValidateTransition(sm, CurrentStateOf(current), new_state.state, FALSE).valid
    THEN ApplyState(new_state, run_id)
    ELSE /\ last' = [op |-> "rejected", new_state |-> new_state, run_id |-> run_id,
                     result |-> "rejected", first |-> FALSE]
         /\ UNCHANGED <<rows, clock, pc, arg, cur, tnow, ncalls>>
         /\ UNCHANGED <<sm, engine, decided>>
         /\ UNCHANGED ioVars

NextOrch ==
  \/ Tick
  \/ \E new_state \in {AdvisoryState(a, d) : a \in Advisories, d \in OrchTemplates},
        run_id \in RunIds :
       Orchestrate(new_state, run_id)

SpecOrch == Init /\ [][NextOrch]_vars

(***************************************************************************)
(* apply_state as the four steps that two callers may interleave: read the *)
(* current row, compare, close the current row, insert the new row.  Each  *)
(* conn.execute is one statement, committed on its own.                    *)
(***************************************************************************)
\* current = self.get_current_state(new_state.advisory_id)
StepRead(t, new_state, run_id) ==
  /\ pc[t] = "idle"
  /\ ncalls < MaxCalls
  /\ ncalls' = ncalls + 1
  /\ \E current \in GetCurrentState(rows, new_state.advisory_id) :
       cur' = [cur EXCEPT ![t] = current]
  /\ arg' = [arg EXCEPT ![t] = <<new_state, run_id>>]
  /\ pc' = [pc EXCEPT ![t] = "compare"]
  /\ UNCHANGED <<rows, clock, last, tnow>>
  /\ UNCHANGED <<sm, engine, decided>>
  /\ UNCHANGED ioVars

\* if not self.has_state_changed(current, new_state): return False
\* now = datetime.utcnow()
StepCompare(t) ==
  /\ pc[t] = "compare"
  /\ IF ~HasStateChanged(cur[t], arg[t][1])
     THEN /\ last' = ApplyRecord(arg[t][1], arg[t][2], "no_change", FALSE)
          /\ pc' = [pc EXCEPT ![t] = "idle"]
          /\ arg' = [arg EXCEPT ![t] = <<>>]
          /\ cur' = [cur EXCEPT ![t] = <<>>]
          /\ UNCHANGED tnow
     ELSE /\ tnow' = [tnow EXCEPT ![t] = clock]
          /\ pc' = [pc EXCEPT ![t] = "close"]
          /\ UNCHANGED <<last, arg, cur>>
  /\ UNCHANGED <<rows, clock, ncalls>>
  /\ UNCHANGED <<sm, engine, decided>>
  /\ UNCHANGED ioVars

\* if current: conn.execute("UPDATE ... WHERE advisory_id = ? AND is_current = TRUE")
StepClose(t) ==
  /\ pc[t] = "close"
  /\ rows' = IF cur[t] # <<>>
              THEN CloseCurrent(rows, arg[t][1].advisory_id, tnow[t])
              ELSE rows
  /\ pc' = [pc EXCEPT ![t] = "insert"]
  /\ UNCHANGED <<clock, last, arg, cur, tnow, ncalls>>
  /\ UNCHANGED <<sm, engine, decided>>
  /\ UNCHANGED ioVars

\* conn.execute("INSERT INTO advisory_state_history ...") ; return True
StepInsert(t) ==
  /\ pc[t] = "insert"
  /\ LET row == NewRow(arg[t][1], arg[t][2], tnow[t])
     IN IF PrimaryKeyViolation(rows, row)
        THEN /\ rows' = rows
             /\ last' = ApplyRecord(arg[t][1], arg[t][2], "raised", FALSE)
        ELSE /\ Cardinality(rows) < MaxRows
             /\ rows' = rows \cup {row}
             /\ last' = ApplyRecord(arg[t][1], arg[t][2], "changed", FALSE)
  /\ pc' = [pc EXCEPT ![t] = "idle"]
  /\ arg' = [arg EXCEPT ![t] = <<>>]
  /\ cur' = [cur EXCEPT ![t] = <<>>]
  /\ tnow' = [tnow EXCEPT ![t] = NullTime]
  /\ UNCHANGED <<clock, ncalls>>
  /\ UNCHANGED <<sm, engine, decided>>
  /\ UNCHANGED ioVars

NextConc ==
  \/ Tick
  \/ \E t \in Threads, new_state \in ConcCandidates : StepRead(t, new_state, RunIdOf(t))
  \/ \E t \in Threads : StepCompare(t)
  \/ \E t \in Threads : StepClose(t)
  \/ \E t \in Threads : StepInsert(t)

SpecConc == Init /\ [][NextConc]_vars

(***************************************************************************)
(* The state machine and the rule engine, applied to inputs drawn from the *)
(* sets above.                                                             *)
(***************************************************************************)
\* sm.validate_transition(current_state, new_state, allow_regressions)
ValidateTransitionCall(current_state, new_state, allow_regressions) ==
  /\ last' = [op |-> "validate_transition",
              current_state |-> current_state,
              new_state |-> new_state,
              allow_regressions |-> allow_regressions,
              result |-> ValidateTransition(sm, current_state, new_state,
                                            allow_regressions)]
  /\ UNCHANGED <<storeVars, sm, engine, decided>>
  /\ UNCHANGED ioVars

InitSM ==
  /\ rows = {}
  /\ clock = 1
  /\ last = [op |-> "init"]
  /\ pc = [t \in Threads |-> "idle"]
  /\ arg = [t \in Threads |-> <<>>]
  /\ cur = [t \in Threads |-> <<>>]
  /\ tnow = [t \in Threads |-> NullTime]
  /\ ncalls = 0
  /\ sm \in {AdvisoryStateMachine(config) : config \in Configs}
  /\ engine = RuleEngine(FALSE, <<>>)
  /\ decided = <<>>
  /\ InitIO

\* sm.get_allowed_transitions(current_state)
GetAllowedTransitionsCall(current_state) ==
  /\ last' = [op |-> "get_allowed_transitions",
              current_state |-> current_state,
              result |-> GetAllowedTransitions(sm, current_state)]
  /\ UNCHANGED <<storeVars, sm, engine, decided>>
  /\ UNCHANGED ioVars

\* sm.describe_transition(current_state, new_state)
DescribeTransitionCall(current_state, new_state) ==
  /\ last' = [op |-> "describe_transition",
              current_state |-> current_state,
              new_state |-> new_state,
              result |-> DescribeTransition(sm, current_state, new_state)]
  /\ UNCHANGED <<storeVars, sm, engine, decided>>
  /\ UNCHANGED ioVars

NextSM ==
  \/ \E current_state \in StateNames, new_state \in StateNames,
        allow_regressions \in BOOLEAN :
       ValidateTransitionCall(current_state, new_state, allow_regressions)
  \/ \E current_state \in StateNames : GetAllowedTransitionsCall(current_state)
  \/ \E current_state \in StateNames, new_state \in StateNames :
       DescribeTransitionCall(current_state, new_state)

SpecSM == InitSM /\ [][NextSM]_vars

\* The history after a call that is no decide on the remembered record.
OtherCall(history) ==
  IF history # <<>> /\ history[1].calls = "first"
    THEN <<[history[1] EXCEPT !.calls = "other"]>>
    ELSE history

\* The history after decide(advisory_data) returned or raised `result`.
DecideCalled(history, advisory_data, result) ==
  IF advisory_data \notin Records THEN history
  ELSE IF history = <<>>
  THEN <<[advisory_data |-> advisory_data, result |-> result, calls |-> "first"]>>
  ELSE IF history[1].advisory_data # advisory_data THEN OtherCall(history)
  ELSE IF history[1].calls = "other"
  THEN <<[history[1] EXCEPT !.calls = "again"]>>
  ELSE history

\* decide dropping the rule that matched from self.rules.
DecideCall_ConsumesRule(advisory_data) ==
  LET result == Decide(engine, advisory_data)
  IN /\ last' = [op |-> "decide", advisory_data |-> advisory_data, result |-> result]
     /\ decided' = DecideCalled(decided, advisory_data, result)
     /\ engine' = IF result.outcome = "decision"
                    THEN [engine EXCEPT !.rules =
                            SelectSeq(@, LAMBDA r :
                              r.rule_id # result.decision.evidence["applied_rule"])]
                    ELSE engine
     /\ UNCHANGED <<storeVars, sm>>
     /\ UNCHANGED ioVars

\* engine.decide(advisory_data)
DecideCall(advisory_data) ==
  /\ last' = [op |-> "decide",
              advisory_data |-> advisory_data,
              result |-> Decide(engine, advisory_data)]
  /\ decided' = DecideCalled(decided, advisory_data, Decide(engine, advisory_data))
  /\ UNCHANGED <<storeVars, sm, engine>>
  /\ UNCHANGED ioVars

InitRE ==
  /\ rows = {}
  /\ clock = 1
  /\ last = [op |-> "init"]
  /\ pc = [t \in Threads |-> "idle"]
  /\ arg = [t \in Threads |-> <<>>]
  /\ cur = [t \in Threads |-> <<>>]
  /\ tnow = [t \in Threads |-> NullTime]
  /\ ncalls = 0
  /\ sm = AdvisoryStateMachine(NoConfig)
  /\ engine \in Engines
  /\ decided = <<>>
  /\ InitIO

NextRE == \E advisory_data \in AdvisoryDatas : DecideCall(advisory_data)

SpecRE == InitRE /\ [][NextRE]_vars

\* engine.decide_batch(advisories)
DecideBatchCall(advisories) ==
  /\ last' = [op |-> "decide_batch",
              advisories |-> advisories,
              result |-> DecideBatch(engine, advisories)]
  /\ decided' = OtherCall(decided)
  /\ UNCHANGED <<storeVars, sm, engine>>
  /\ UNCHANGED ioVars

\* engine.explain_decision(advisory_data)
ExplainDecisionCall(advisory_data) ==
  /\ last' = [op |-> "explain_decision",
              advisory_data |-> advisory_data,
              result |-> ExplainDecision(engine, advisory_data)]
  /\ decided' = OtherCall(decided)
  /\ UNCHANGED <<storeVars, sm, engine>>
  /\ UNCHANGED ioVars

InitBatch ==
  /\ rows = {}
  /\ clock = 1
  /\ last = [op |-> "init"]
  /\ pc = [t \in Threads |-> "idle"]
  /\ arg = [t \in Threads |-> <<>>]
  /\ cur = [t \in Threads |-> <<>>]
  /\ tnow = [t \in Threads |-> NullTime]
  /\ ncalls = 0
  /\ sm = AdvisoryStateMachine(NoConfig)
  /\ engine \in BatchEngines
  /\ decided = <<>>
  /\ InitIO

NextBatch ==
  \/ \E advisory_data \in Records : DecideCall(advisory_data)
  \/ \E advisories \in BatchesOf(MaxBatch) : DecideBatchCall(advisories)
  \/ \E advisory_data \in Records : ExplainDecisionCall(advisory_data)

SpecBatch == InitBatch /\ [][NextBatch]_vars

\* DecisionExplainer(templates).explain(reason_code, evidence, fixed_version)
ExplainCall(templates, reason_code, evidence, fixed_version) ==
  /\ last' = [op |-> "explain",
              templates |-> templates,
              reason_code |-> reason_code,
              evidence |-> evidence,
              fixed_version |-> fixed_version,
              result |-> Explain(DecisionExplainer(templates), reason_code,
                                 evidence, fixed_version)]
  /\ UNCHANGED <<storeVars, sm, engine, decided>>
  /\ UNCHANGED ioVars

InitExplain ==
  /\ rows = {}
  /\ clock = 1
  /\ last = [op |-> "init"]
  /\ pc = [t \in Threads |-> "idle"]
  /\ arg = [t \in Threads |-> <<>>]
  /\ cur = [t \in Threads |-> <<>>]
  /\ tnow = [t \in Threads |-> NullTime]
  /\ ncalls = 0
  /\ sm = AdvisoryStateMachine(NoConfig)
  /\ engine = RuleEngine(FALSE, <<>>)
  /\ decided = <<>>
  /\ InitIO

NextExplain ==
  \E templates \in TemplateArgs, reason_code \in (DOMAIN DEFAULT_TEMPLATES \ {"DEFAULT"}) \cup {"UNKNOWN_CODE"},
     evidence \in Evidences, fixed_version \in {NULL, "", "1.0.0"} :
    ExplainCall(templates, reason_code, evidence, fixed_version)

SpecExplain == InitExplain /\ [][NextExplain]_vars

(***************************************************************************)
(* The circuit breaker as HttpClient._request drives it: can_attempt at    *)
(* any time, record_success or record_failure once for a permission given. *)
(***************************************************************************)
\* An HttpClient with some breaker and some RetryConfig, not used yet.
InitHttp ==
  /\ rows = {}
  /\ clock = 1
  /\ last = [op |-> "init"]
  /\ pc = [t \in Threads |-> "idle"]
  /\ arg = [t \in Threads |-> <<>>]
  /\ cur = [t \in Threads |-> <<>>]
  /\ tnow = [t \in Threads |-> NullTime]
  /\ ncalls = 0
  /\ sm = AdvisoryStateMachine(NoConfig)
  /\ engine = RuleEngine(FALSE, <<>>)
  /\ decided = <<>>
  /\ breaker \in {CircuitBreaker(failure_threshold, open_seconds) :
                    failure_threshold \in {1, 2}, open_seconds \in {1, 2}}
  /\ monotonic = 0
  /\ audit = NoAudit
  /\ retry_config \in {RetryConfig(max_retries) : max_retries \in 0..MaxRetries}
  /\ raw = [table \in LoadTables |-> {}]
  /\ nloads = 0

\* time.monotonic() advances.
TickMonotonic ==
  /\ monotonic < MaxMonotonic
  /\ monotonic' = monotonic + 1
  /\ UNCHANGED <<storeVars, sm, engine, decided>>
  /\ UNCHANGED <<last, breaker, audit, retry_config, raw, nloads>>

CanAttemptCall ==
  LET r == CanAttempt(breaker, monotonic)
  IN /\ breaker' = r.breaker
     /\ last' = [op |-> "can_attempt", at |-> monotonic, result |-> r.result,
                 granted |-> audit.granted, was_open |-> audit.opening_at # NoTime]
     /\ audit' = [audit EXCEPT
                    !.pending = @ \/ r.result,
                    !.granted = IF r.result /\ audit.opening_at # NoTime
                                THEN @ + 1 ELSE @]
     /\ UNCHANGED <<storeVars, sm, engine, decided>>
     /\ UNCHANGED <<monotonic, retry_config, raw, nloads>>

RecordSuccessCall ==
  /\ audit.pending
  /\ breaker' = RecordSuccess(breaker)
  /\ last' = [op |-> "record_success", at |-> monotonic, result |-> TRUE,
              granted |-> audit.granted, was_open |-> audit.opening_at # NoTime]
  /\ audit' = NoAudit
  /\ UNCHANGED <<storeVars, sm, engine, decided>>
  /\ UNCHANGED <<monotonic, retry_config, raw, nloads>>

RecordFailureCall ==
  /\ audit.pending
  /\ breaker.failure_count < MaxFailures
  /\ breaker' = RecordFailure(breaker, monotonic)
  /\ last' = [op |-> "record_failure", at |-> monotonic, result |-> TRUE,
              granted |-> audit.granted, was_open |-> audit.opening_at # NoTime]
  /\ audit' = [streak |-> audit.streak + 1,
               opening_at |->
                 IF audit.opening_at = NoTime
                    /\ audit.streak + 1 >= breaker.failure_threshold
                 THEN monotonic ELSE audit.opening_at,
               failed_at |-> monotonic,
               granted |-> 0,
               pending |-> FALSE]
  /\ UNCHANGED <<storeVars, sm, engine, decided>>
  /\ UNCHANGED <<monotonic, retry_config, raw, nloads>>

NextBreaker ==
  \/ TickMonotonic
  \/ CanAttemptCall
  \/ RecordSuccessCall
  \/ RecordFailureCall

\* Time passes, and callers keep asking can_attempt.
SpecBreaker ==
  InitHttp /\ [][NextBreaker]_vars
  /\ WF_vars(TickMonotonic) /\ WF_vars(CanAttemptCall)

(***************************************************************************)
(* HttpClient._request on a client with some breaker and some RetryConfig. *)
(***************************************************************************)
\* _request: can_attempt is asked at time monotonic, the for loop follows
\* when it permits, and the outcome is recorded at time `now`.
RequestCall(responses, now) ==
  LET gate == CanAttempt(breaker, monotonic)
      result == IF ~gate.result
                THEN RequestResult("raise", "CircuitOpenError", 0, <<>>, FALSE,
                                   gate.breaker)
                ELSE RequestLoop(gate.breaker, retry_config, responses, 0, now)
  IN /\ breaker.failure_count < MaxFailures
     /\ breaker' = result.breaker
     /\ monotonic' = IF result.permitted THEN now ELSE monotonic
     /\ last' = [op |-> "_request",
                 responses |-> SubSeq(responses, 1, result.attempts),
                 outcome |-> result.outcome, error |-> result.error,
                 attempts |-> result.attempts, records |-> result.records,
                 permitted |-> result.permitted]
     /\ UNCHANGED <<storeVars, sm, engine, decided>>
     /\ UNCHANGED <<audit, retry_config, raw, nloads>>

NextHttp ==
  \/ TickMonotonic
  \/ \E responses \in [1..(MaxRetries + 1) -> AttemptOutcomes], took \in {0, 1} :
       /\ monotonic + took <= MaxMonotonic
       /\ RequestCall(responses, monotonic + took)

SpecHttp == InitHttp /\ [][NextHttp]_vars

(***************************************************************************)
(* The per-source loads of SourceLoader.                                   *)
(***************************************************************************)
\* load_echo_advisories / load_echo_csv / load_nvd_observations /
\* load_osv_observations: DELETE ... WHERE run_id = ?, then the INSERT loop.
LoadCall(table, observations, run_id) ==
  LET kept == {r \in raw[table] : r.run_id # run_id}
      result == InsertObservations(table, kept, observations, run_id, 1)
  IN /\ nloads < MaxLoads
     /\ nloads' = nloads + 1
     /\ raw' = [raw EXCEPT ![table] = result.rows]
     /\ last' = [op |-> "load", table |-> table, observations |-> observations,
                 run_id |-> run_id, outcome |-> result.outcome,
                 loaded |-> result.loaded, before |-> raw[table]]
     /\ UNCHANGED <<storeVars, sm, engine, decided>>
     /\ UNCHANGED <<breaker, monotonic, audit, retry_config>>

NextLoader ==
  \E table \in LoadTables, observations \in ObservationLists(MaxLoad),
     run_id \in RunIds :
    LoadCall(table, observations, run_id)

SpecLoader == Init /\ [][NextLoader]_vars

(***************************************************************************)
(* Properties of the SCD2 store.                                           *)
(***************************************************************************)
RowsOf(table, advisory_id) == {r \in table : r.advisory_id = advisory_id}
CurrentRowsOf(table, advisory_id) == {r \in RowsOf(table, advisory_id) : r.is_current}

\* The four fields has_state_changed is specified to compare.
DiffersOnComparedFields(row, new_state) ==
  \/ row.state # new_state.state
  \/ row.fixed_version # new_state.fixed_version
  \/ row.confidence # new_state.confidence
  \/ row.reason_code # new_state.reason_code

\* This step is a completed apply_state of the sequential specification.
IsApplyStep == clock' = clock /\ last'.op = "apply_state"

\* C1: after any sequence of completed apply_state calls, every advisory that
\* has a row in advisory_state_history has exactly one row with is_current.
C1_ExactlyOneCurrent ==
  \A a \in Advisories :
    RowsOf(rows, a) # {} => Cardinality(CurrentRowsOf(rows, a)) = 1

\* C2: under every interleaving of the steps of two apply_state calls, no
\* advisory ever has two rows with is_current = TRUE.
C2_NoTwoCurrentUnderRace ==
  \A a \in Advisories : Cardinality(CurrentRowsOf(rows, a)) <= 1

\* C3: the versions of an advisory, ordered by effective_from, are contiguous:
\* each version's effective_to is the next version's effective_from, and the
\* last version is open (effective_to NULL).
C3_ContiguousIntervals ==
  \A a \in Advisories :
    LET h == GetHistory(rows, a)
    IN \A i \in 1..Len(h) :
         IF i < Len(h)
           THEN h[i].effective_to = h[i + 1].effective_from
           ELSE h[i].effective_to = NullTime

\* C4: apply_state creates a new version and returns changed if and only if
\* the advisory has no current version or the candidate differs from it in
\* state, fixed_version, confidence or reason_code; and no two consecutive
\* versions of an advisory agree on all four fields.
C4_VersionIffChanged ==
  /\ [][IsApplyStep =>
          LET ns == last'.new_state
              curs == CurrentRowsOf(rows, ns.advisory_id)
              differs == curs = {} \/ \E c \in curs : DiffersOnComparedFields(c, ns)
              created == \E r \in rows' :
                           /\ r.advisory_id = ns.advisory_id
                           /\ \A q \in rows : q.history_id # r.history_id
          IN /\ (last'.result = "changed") <=> differs
             /\ created <=> differs]_vars
  /\ [](\A a \in Advisories :
          LET h == GetHistory(rows, a)
          IN \A i \in 1..(Len(h) - 1) : DiffersOnComparedFields(h[i], h[i + 1]))

\* C5: applying the same candidate again after a call that succeeded, under
\* any run_id, reports no change and leaves the table as it was; a first-time
\* advisory then has exactly one row.
C5_Idempotent ==
  [][(/\ last.op = "apply_state"
      /\ last.result \in {"changed", "no_change"}
      /\ IsApplyStep
      /\ last'.new_state = last.new_state)
     => /\ last'.result = "no_change"
        /\ rows' = rows
        /\ (last.result = "changed" /\ last.first)
             => Cardinality(RowsOf(rows', last.new_state.advisory_id)) = 1]_vars

\* C5 happens: a candidate was applied a second time, under another run_id
\* than the one that created the advisory's only row.
C5_Witness ==
  /\ last.op = "apply_state"
  /\ last.result = "no_change"
  /\ \E r \in rows :
       /\ r = NewRow(last.new_state, r.run_id, r.effective_from)
       /\ r.run_id # last.run_id
       /\ RowsOf(rows, r.advisory_id) = {r}

\* C6: applying A and then a differing B for the same advisory yields a
\* history of two rows: A closed with a non-null effective_to, then B current
\* with effective_to NULL.
C6_TwoVersions ==
  [][(/\ last.op = "apply_state"
      /\ last.result = "changed"
      /\ last.first
      /\ IsApplyStep
      /\ last'.new_state.advisory_id = last.new_state.advisory_id
      /\ \E c \in CurrentRowsOf(rows, last.new_state.advisory_id) :
           DiffersOnComparedFields(c, last'.new_state))
     => LET h == GetHistory(rows', last.new_state.advisory_id)
        IN /\ Len(h) = 2
           /\ h[1].state = last.new_state.state
           /\ ~h[1].is_current
           /\ h[1].effective_to # NullTime
           /\ h[2].state = last'.new_state.state
           /\ h[2].is_current
           /\ h[2].effective_to = NullTime]_vars

C8_AppendOnly ==
  [][/\ \A r \in rows :
          \E q \in rows' :
            /\ q.history_id = r.history_id
            /\ \/ q = r
               \/ /\ r.is_current
                  /\ IsApplyStep
                  /\ r.advisory_id = last'.new_state.advisory_id
                  /\ q.effective_to # NullTime
                  /\ q = [r EXCEPT !.is_current = FALSE, !.effective_to = q.effective_to]
     /\ Cardinality(rows \ rows') <= 1]_vars

\* C8 happens: a version was superseded, and a later call ran with the
\* closed row in the table.
C8_Witness ==
  /\ last.op = "apply_state"
  /\ \E r \in rows, q \in rows :
       /\ ~r.is_current
       /\ q.advisory_id = r.advisory_id
       /\ q.effective_from = r.effective_to
       /\ q.history_id # r.history_id
       /\ last.result \in {"no_change", "raised"}

\* C26: every row of advisory_state_history with state fixed has a non-empty
\* fixed_version, after any sequence of apply_state calls.
C26_FixedHasVersion ==
  \A r \in rows : r.state = "fixed" => r.fixed_version \notin {NULL, ""}

\* C27: count_state_changes(run_id) is the number of apply_state calls made
\* with that run_id that returned changed: it is 0 on the empty table, a call
\* with run_id that returns changed raises it by one, and no other step
\* (a no-change call, a call of another run, a read) changes it.
C27_CountStateChanges ==
  /\ \A run_id \in RunIds : CountStateChanges(rows, run_id) = 0
  /\ [][\A run_id \in RunIds :
          CountStateChanges(rows', run_id) =
            CountStateChanges(rows, run_id)
              + (IF IsApplyStep /\ last'.result = "changed" /\ last'.run_id = run_id
                   THEN 1 ELSE 0)]_vars

\* C27 happens: run_001 created two versions, and a call of run_002 that
\* reported no change left run_002 with none.
C27_Witness ==
  /\ last.op = "apply_state"
  /\ last.result = "no_change"
  /\ last.run_id = "run_002"
  /\ CountStateChanges(rows, "run_001") = 2
  /\ CountStateChanges(rows, "run_002") = 0
  /\ \E r \in rows : ~r.is_current

\* The advisory the running apply_state of thread t is about.
AdvisoryOf(t) == arg[t][1].advisory_id

\* C28: a step of an apply_state call for advisory X reads X's rows only,
\* leaves the rows of every other advisory as they are, and changes X's rows
\* as it would were X's rows the whole table; so the calls for different
\* advisories commute and each history is that of a serial run.
C28_IndependentAdvisories ==
  [][\A t \in Threads :
       /\ (pc[t] = "idle" /\ pc'[t] = "compare") =>
            /\ rows' = rows
            /\ cur'[t] \in GetCurrentState(RowsOf(rows, arg'[t][1].advisory_id),
                                           arg'[t][1].advisory_id)
            /\ cur'[t] # <<>> => cur'[t][1].advisory_id = arg'[t][1].advisory_id
       /\ (pc[t] = "compare" /\ pc'[t] # "compare") => rows' = rows
       /\ (pc[t] = "close" /\ pc'[t] = "insert") =>
            /\ \A y \in Advisories \ {AdvisoryOf(t)} : RowsOf(rows', y) = RowsOf(rows, y)
            /\ RowsOf(rows', AdvisoryOf(t)) =
                 IF cur[t] # <<>>
                   THEN CloseCurrent(RowsOf(rows, AdvisoryOf(t)), AdvisoryOf(t), tnow[t])
                   ELSE RowsOf(rows, AdvisoryOf(t))
       /\ (pc[t] = "insert" /\ pc'[t] = "idle") =>
            LET row == NewRow(arg[t][1], arg[t][2], tnow[t])
                own == RowsOf(rows, AdvisoryOf(t))
            IN /\ \A y \in Advisories \ {AdvisoryOf(t)} : RowsOf(rows', y) = RowsOf(rows, y)
               /\ RowsOf(rows', AdvisoryOf(t)) =
                    IF PrimaryKeyViolation(own, row) THEN own ELSE own \cup {row}
               /\ last'.result =
                    IF PrimaryKeyViolation(own, row) THEN "raised" ELSE "changed"]_vars

\* C28 happens: a call for one advisory has inserted its row while a call
\* for the other advisory, which took the same clock reading, stands between
\* its UPDATE and its INSERT.
C28_Witness ==
  /\ pc["t1"] = "insert"
  /\ pc["t2"] = "idle"
  /\ last.op = "apply_state"
  /\ last.result = "changed"
  /\ last.new_state.advisory_id # arg["t1"][1].advisory_id
  /\ \E r \in rows : /\ r.advisory_id = last.new_state.advisory_id
                     /\ r.is_current
                     /\ r.effective_from = tnow["t1"]
                     /\ r.run_id = "run_002"

\* C29: an apply_state call that fails leaves the table as it was before
\* the call.
C29_AllOrNothing ==
  [][(IsApplyStep /\ last'.result = "raised") => rows' = rows]_vars

\* C33: the history_id generated for a new version differs from that of
\* every row of the table, so an apply_state call that found a change never
\* fails on its INSERT.
C33_FreshHistoryId ==
  last.op = "apply_state" => last.result # "raised"

\* A history never has a final version immediately followed by a non-final
\* version.
NoRegressionIn(history) ==
  \A i \in 1..(Len(history) - 1) :
    IsFinalState(sm, history[i].state) =>
      GetStateType(sm, history[i + 1].state) # "non_final"

\* C30: when apply_state runs only after validate_transition accepted the
\* move from the current persisted state, no history holds a final version
\* immediately followed by a non-final version.
C30_NoRegressionInHistory ==
  \A a \in Advisories : NoRegressionIn(GetHistory(rows, a))

(***************************************************************************)
(* Properties of the state machine.                                        *)
(***************************************************************************)
\* str.lower() of one word of a message.
LowerWord(w) ==
  CASE w = "Regression" -> "regression"
    [] w = "Invalid" -> "invalid"
    [] w = "Allowing" -> "allowing"
    [] w = "Final" -> "final"
    [] OTHER -> w

\* word in message.lower()
ContainsLower(message, word) == \E i \in 1..Len(message) : LowerWord(message[i]) = word

\* C9: for a final current state and a non-final new state (a state the
\* machine classifies as non_final), validate_transition without
\* allow_regressions returns (False, reason) with the reason naming a
\* regression, and with allow_regressions returns valid.
C9_RegressionBlocked ==
  (/\ last.op = "validate_transition"
   /\ IsFinalState(sm, last.current_state)
   /\ GetStateType(sm, last.new_state) = "non_final")
  => IF last.allow_regressions
       THEN last.result.valid
       ELSE /\ ~last.result.valid
            /\ last.result.reason # NoReason
            /\ ContainsLower(last.result.reason, "regression")

\* C9 happens: fixed -> pending_upstream was rejected as a regression.
C9_Witness ==
  /\ last.op = "validate_transition"
  /\ last.current_state = "fixed"
  /\ last.new_state = "pending_upstream"
  /\ ~last.allow_regressions
  /\ ~last.result.valid
  /\ ContainsLower(last.result.reason, "regression")

\* C17: when the machine classifies the current state as non_final, every
\* new state of the known universe is accepted with reason None, with and
\* without allow_regressions.
C17_NonFinalToAny ==
  (/\ last.op = "validate_transition"
   /\ GetStateType(sm, last.current_state) = "non_final"
   /\ last.new_state \in sm.all_states)
  => /\ last.result.valid
     /\ last.result.reason = NoReason

\* C17 happens: a non-final state moved to another non-final state and to a
\* final one without allow_regressions.
C17_Witness ==
  /\ last.op = "validate_transition"
  /\ last.current_state = "under_investigation"
  /\ last.new_state = "pending_upstream"
  /\ GetStateType(sm, "under_investigation") = "non_final"
  /\ ~last.allow_regressions
  /\ last.result.valid

\* C18: validate_transition(None, new) returns (True, None) for every new
\* state of the known universe.
C18_FirstDecisionAccepted ==
  (/\ last.op = "validate_transition"
   /\ last.current_state = NULL
   /\ last.new_state \in sm.all_states)
  => /\ last.result.valid
     /\ last.result.reason = NoReason

\* C18 happens: a first decision of a custom state was accepted.
C18_Witness ==
  /\ last.op = "validate_transition"
  /\ last.current_state = NULL
  /\ last.new_state = "resolved"
  /\ ~last.allow_regressions
  /\ last.result = TransitionResult(TRUE, NoReason, <<>>)

\* C19: a new state outside the known universe is refused with a reason
\* reading "invalid target state ..." for every current state, None included,
\* and either allow_regressions; a current state outside the universe (not
\* None) with a known new state is refused with "invalid current state ...".
\* validate_transition has no raising outcome: every call yields a result.
C19_UnknownStatesRejected ==
  last.op = "validate_transition" =>
    /\ last.result.valid \in BOOLEAN
    /\ last.new_state \notin sm.all_states =>
         /\ ~last.result.valid
         /\ ContainsLower(last.result.reason, "invalid")
         /\ ContainsLower(last.result.reason, "target")
         /\ last.result.reason[Len(last.result.reason)] = last.new_state
    /\ (/\ last.new_state \in sm.all_states
        /\ last.current_state # NULL
        /\ last.current_state \notin sm.all_states) =>
         /\ ~last.result.valid
         /\ ContainsLower(last.result.reason, "invalid")
         /\ ContainsLower(last.result.reason, "current")
         /\ last.result.reason[Len(last.result.reason)] = last.current_state

\* C19 happens: a first decision of an unknown state was refused although
\* regressions were allowed.
C19_Witness ==
  /\ last.op = "validate_transition"
  /\ last.current_state = NULL
  /\ last.new_state = "invalid_state"
  /\ last.allow_regressions
  /\ ~last.result.valid
  /\ ContainsLower(last.result.reason, "target")

\* C20 as stated: validate_transition is valid with reason None whenever
\* current = new, and whenever current and new are both final states.
C20_SameOrBothFinal ==
  (/\ last.op = "validate_transition"
   /\ last.current_state # NULL
   /\ \/ last.current_state = last.new_state
      \/ /\ IsFinalState(sm, last.current_state)
         /\ IsFinalState(sm, last.new_state))
  => /\ last.result.valid
     /\ last.result.reason = NoReason

\* C20 amended: the same, for a current = new that is a state of the known
\* universe; re-confirming a state outside the universe is refused as an
\* invalid target state.
C20_SameKnownOrBothFinal ==
  last.op = "validate_transition" /\ last.current_state # NULL =>
    /\ (\/ /\ last.current_state = last.new_state
           /\ last.new_state \in sm.all_states
        \/ /\ IsFinalState(sm, last.current_state)
           /\ IsFinalState(sm, last.new_state))
       => /\ last.result.valid
          /\ last.result.reason = NoReason
    /\ (/\ last.current_state = last.new_state
        /\ last.new_state \notin sm.all_states)
       => /\ ~last.result.valid
          /\ ContainsLower(last.result.reason, "target")

\* C20 happens: one final state was replaced by a different final state
\* without allow_regressions.
C20_Witness ==
  /\ last.op = "validate_transition"
  /\ last.current_state = "fixed"
  /\ last.new_state = "wont_fix"
  /\ IsFinalState(sm, "fixed") /\ IsFinalState(sm, "wont_fix")
  /\ ~last.allow_regressions
  /\ last.result.valid
  /\ last.result.reason = NoReason

C22_IsRegression ==
  (last.op = "describe_transition" /\ last.result.outcome = "return") =>
    /\ last.result.is_regression <=>
         /\ last.current_state # NULL
         /\ IsFinalState(sm, last.current_state)
         /\ last.new_state \in sm.non_final_states
    /\ last.current_state = NULL => ~last.result.is_regression

\* C22 happens: fixed -> pending_upstream is described as an invalid
\* transition and as a regression.
C22_Witness ==
  /\ last.op = "describe_transition"
  /\ last.current_state = "fixed"
  /\ last.new_state = "pending_upstream"
  /\ last.result.outcome = "return"
  /\ ~last.result.is_valid
  /\ last.result.is_regression
  /\ last.result.from_type = "final"
  /\ last.result.to_type = "non_final"

\* C31: describe_transition returns its record for every pair of states,
\* None and states outside the universe included, and the record's is_valid
\* and rejection_reason are those of validate_transition(current, new) with
\* allow_regressions False.
C31_DescribeNeverRaises ==
  last.op = "describe_transition" =>
    /\ last.result.outcome = "return"
    /\ last.result.is_valid =
         ValidateTransition(sm, last.current_state, last.new_state, FALSE).valid
    /\ last.result.rejection_reason =
         ValidateTransition(sm, last.current_state, last.new_state, FALSE).reason

\* The states a config lists under 'final' and 'non_final'.
ConfiguredStates(config) ==
  (IF "final" \in config.keys THEN config.final ELSE {})
    \cup (IF "non_final" \in config.keys THEN config.non_final ELSE {})

\* For a machine built from `config`: a state the config lists in neither set
\* is refused as target and as current, and is not final.
OnlyConfiguredStates(config) ==
  sm = AdvisoryStateMachine(config) =>
    /\ \A s \in StateNames \ (ConfiguredStates(config) \cup {NULL}) :
         ~IsFinalState(sm, s)
    /\ last.op = "validate_transition" =>
         /\ last.new_state \notin ConfiguredStates(config) => ~last.result.valid
         /\ (/\ last.current_state # NULL
             /\ last.current_state \notin ConfiguredStates(config))
              => ~last.result.valid

\* C36 as stated: for every supplied (non-empty) config, the states it lists
\* are the whole universe.
C36_ConfiguredUniverse ==
  \A config \in Configs :
    (config.given /\ config.keys # {}) => OnlyConfiguredStates(config)

\* C36 amended: for every config that supplies both 'final' and 'non_final',
\* the states it lists are the whole universe.
C36_FullConfigUniverse ==
  \A config \in Configs :
    (config.given /\ config.keys = {"final", "non_final"})
      => OnlyConfiguredStates(config)

\* C36 happens: under the custom config of the tests the default state
\* fixed, which the config omits, was refused as current state of a
\* transition to a configured state.
C36_Witness ==
  /\ sm.final_states = {"resolved", "dismissed"}
  /\ sm.non_final_states = {"open", "investigating"}
  /\ last.op = "validate_transition"
  /\ last.current_state = "fixed"
  /\ last.new_state = "resolved"
  /\ ~last.result.valid
  /\ ~IsFinalState(sm, "fixed")

(***************************************************************************)
(* Properties of the rule engine.                                          *)
(***************************************************************************)
\* The rules of the engine that return a Decision for the record.
MatchingRules(e, advisory_data) ==
  {r \in {e.rules[i] : i \in 1..Len(e.rules)} :
     Evaluate(r, advisory_data).outcome = "decision"}

PriorityOf(e, rule_id) ==
  (CHOOSE r \in {e.rules[i] : i \in 1..Len(e.rules)} : r.rule_id = rule_id).priority

\* C10: whatever the order of the rule list, decide returns the Decision of
\* a matching rule with the lowest priority number, stamped with that rule's
\* id, and evaluates no rule with a higher priority number; the default rules
\* give CSV_OVERRIDE / R0 for a record with override, rejection and fix.
C10_LowestPriorityWins ==
  last.op = "decide" =>
    LET matching == MatchingRules(engine, last.advisory_data)
        d == last.advisory_data
    IN /\ matching # {} =>
            /\ last.result.outcome = "decision"
            /\ \E r \in matching :
                 /\ \A q \in matching : r.priority <= q.priority
                 /\ last.result.decision =
                      StampAppliedRule(Evaluate(r, d).decision, r.rule_id)
                 /\ last.result.decision.evidence["applied_rule"] = r.rule_id
                 /\ \A i \in 1..Len(last.result.evaluated) :
                      PriorityOf(engine, last.result.evaluated[i]) <= r.priority
       /\ (/\ ~engine.given
           /\ Get(d, "override_status", NULL) = "not_applicable"
           /\ Get(d, "is_rejected", FALSE)
           /\ Get(d, "fix_available", FALSE)
           /\ Get(d, "fixed_version", NULL) = "1.0.0")
            => /\ last.result.outcome = "decision"
               /\ last.result.decision.reason_code = "CSV_OVERRIDE"
               /\ last.result.decision.evidence["applied_rule"] = "R0"

\* C10 happens: the list was handed over with the catch-all rule first, the
\* record satisfies both rules, and the lower priority number won.
C10_Witness ==
  /\ last.op = "decide"
  /\ engine.given
  /\ engine.arg = <<PendingUpstreamRule, CsvOverrideRule>>
  /\ Get(last.advisory_data, "override_status", NULL) = "not_applicable"
  /\ last.result.outcome = "decision"
  /\ last.result.decision.reason_code = "CSV_OVERRIDE"
  /\ last.result.evaluated = <<"R0">>

\* C11: with the default rule set decide computes the decision table:
\* CSV_OVERRIDE / not_applicable when override_status is 'not_applicable';
\* else NVD_REJECTED / not_applicable when is_rejected; else UPSTREAM_FIX /
\* fixed with the record's fixed_version when fix_available and fixed_version
\* is non-empty; else NEW_CVE / under_investigation when has_signal is absent
\* or false; else AWAITING_FIX / pending_upstream.
C11_DecisionTable ==
  (/\ last.op = "decide"
   /\ engine.rules = GetDefaultRules)
  => LET d == last.advisory_data
         expected ==
           IF Get(d, "override_status", NULL) = "not_applicable"
             THEN <<"CSV_OVERRIDE", "not_applicable", NULL>>
           ELSE IF Get(d, "is_rejected", FALSE)
             THEN <<"NVD_REJECTED", "not_applicable", NULL>>
           ELSE IF Get(d, "fix_available", FALSE) /\ Get(d, "fixed_version", "") # ""
             THEN <<"UPSTREAM_FIX", "fixed", d["fixed_version"]>>
           ELSE IF ~Get(d, "has_signal", FALSE)
             THEN <<"NEW_CVE", "under_investigation", NULL>>
           ELSE <<"AWAITING_FIX", "pending_upstream", NULL>>
     IN /\ last.result.outcome = "decision"
        /\ last.result.decision.reason_code = expected[1]
        /\ last.result.decision.state = expected[2]
        /\ last.result.decision.fixed_version = expected[3]

\* C11 happens: a fix is announced with an empty fixed_version, a signal is
\* present, and the record fell through to the catch-all rule.
C11_Witness ==
  /\ last.op = "decide"
  /\ engine.rules = GetDefaultRules
  /\ "override_status" \notin DOMAIN last.advisory_data
  /\ Get(last.advisory_data, "is_rejected", TRUE) = FALSE
  /\ Get(last.advisory_data, "fix_available", FALSE)
  /\ Get(last.advisory_data, "fixed_version", NULL) = ""
  /\ Get(last.advisory_data, "has_signal", FALSE)
  /\ last.result.outcome = "decision"
  /\ last.result.decision.reason_code = "AWAITING_FIX"

\* C12: with the default rule set decide returns a Decision, and does not
\* raise, for every record in which any subset of the signal keys is absent;
\* for the record holding advisory_id alone the reason_code is NEW_CVE or
\* AWAITING_FIX.
C12_AbsentKeysNeverRaise ==
  (/\ last.op = "decide"
   /\ engine.rules = GetDefaultRules
   /\ last.advisory_data \in AdvisoryDatas)
  => /\ last.result.outcome = "decision"
     /\ last.result.errors = <<>>
     /\ DOMAIN last.advisory_data = {"advisory_id"}
          => last.result.decision.reason_code \in {"NEW_CVE", "AWAITING_FIX"}

\* C12 happens: the record with advisory_id alone was decided.
C12_Witness ==
  /\ last.op = "decide"
  /\ engine.rules = GetDefaultRules
  /\ DOMAIN last.advisory_data = {"advisory_id"}
  /\ last.result.outcome = "decision"
  /\ last.result.decision.reason_code = "NEW_CVE"
  /\ last.result.evaluated = <<"R0", "R1", "R2", "R5">>

\* C13: when a rule's evaluate raises, decide goes on with the next rule; what
\* it returns (a Decision, or the no-match error) is what the same rule list
\* without the raising rules returns, and the failure was logged.
C13_RaisingRuleSkipped ==
  last.op = "decide" /\ IsMapping(last.advisory_data) =>
    LET d == last.advisory_data
        Raises(r) == Evaluate(r, d).outcome = "raise"
        without == SelectSeq(engine.rules, LAMBDA r : ~Raises(r))
        reference == DecideFrom(without, d, 1, <<>>, <<>>)
    IN /\ last.result.outcome = reference.outcome
       /\ last.result.outcome = "decision"
            => last.result.decision = reference.decision
       /\ \A i \in 1..Len(last.result.evaluated) :
            LET r == engine.rules[i]
            IN Raises(r) => \E j \in 1..Len(last.result.errors) :
                              last.result.errors[j] = r.rule_id

\* C13 happens: the first rule raised and the catch-all rule after it decided.
C13_Witness ==
  /\ last.op = "decide"
  /\ engine.rules = <<CustomRaisingRule, PendingUpstreamRule>>
  /\ last.result.outcome = "decision"
  /\ last.result.errors = <<"RE">>
  /\ last.result.evaluated = <<"RE", "R6">>
  /\ last.result.decision.reason_code = "AWAITING_FIX"

\* C14: decide_batch returns as many results as records, element i being the
\* result for record i; with one record replaced by a malformed one the batch
\* still returns and every other position holds the same decision.
C14_BatchIndependent ==
  last.op = "decide_batch" =>
    LET b == last.advisories
        res == last.result
    IN /\ res.outcome = "return"
       /\ Len(res.decisions) = Len(b)
       /\ \A i \in 1..Len(b) :
            Decide(engine, b[i]).outcome = "decision"
              => res.decisions[i] = Decide(engine, b[i]).decision
       /\ \A j \in 1..Len(b), m \in {RecordBadSources, NotAMapping} :
            LET res2 == DecideBatch(engine, [b EXCEPT ![j] = m])
            IN /\ res2.outcome = "return"
               /\ Len(res2.decisions) = Len(b)
               /\ \A i \in 1..Len(b) : i # j => res2.decisions[i] = res.decisions[i]

\* C15: when decide fails for a record of a batch, the result at its position
\* is the synthetic Decision (unknown, non_final, low, ERROR) carrying the
\* failure message, and the records after it are processed.
C15_ErrorDecision ==
  last.op = "decide_batch" =>
    LET b == last.advisories
        res == last.result
    IN \A i \in 1..Len(b) :
         Decide(engine, b[i]).outcome = "raise" =>
           /\ res.outcome = "return"
           /\ Len(res.decisions) = Len(b)
           /\ res.decisions[i].state = "unknown"
           /\ res.decisions[i].state_type = "non_final"
           /\ res.decisions[i].confidence = "low"
           /\ res.decisions[i].reason_code = "ERROR"
           /\ res.decisions[i].evidence["error"] = Decide(engine, b[i]).error
           /\ res.decisions[i].explanation =
                <<"Error processing advisory: ">> \o Decide(engine, b[i]).error

C24_NoMatchRaises ==
  last.op = "decide" /\ IsMapping(last.advisory_data) =>
    /\ MatchingRules(engine, last.advisory_data) = {} =>
         /\ last.result.outcome = "raise"
         /\ last.result.error =
              <<"No rule matched for advisory ",
                Get(last.advisory_data, "advisory_id", "unknown")>>
         /\ Len(last.result.evaluated) = Len(engine.rules)
    /\ last.result.outcome = "raise" =>
         \A i \in 1..Len(engine.rules) :
           engine.rules[i].kind \notin {"PendingUpstreamRule", "CustomMatchRule"}

\* C24 happens: the only rules are one that does not match and one that
\* raises, and decide raised.
C24_Witness ==
  /\ last.op = "decide"
  /\ engine.rules = <<CustomRaisingRule, NvdRejectedRule>>
  /\ Get(last.advisory_data, "is_rejected", FALSE) = FALSE
  /\ last.result.outcome = "raise"
  /\ last.result.errors = <<"RE">>

\* A Decision is well-formed: fixed comes with a non-empty fixed_version, and
\* state_type is final exactly for fixed, not_applicable, wont_fix and
\* non_final exactly for pending_upstream, under_investigation, unknown.
WellFormed(decision) ==
  /\ decision.state = "fixed" => decision.fixed_version \notin {NULL, ""}
  /\ decision.state_type = "final" <=> decision.state \in FINAL_STATES
  /\ decision.state_type = "non_final" <=> decision.state \in NON_FINAL_STATES

\* C25: with the default rules every Decision decide returns, and every
\* Decision in the list decide_batch returns, is well-formed.
C25_DecisionsWellFormed ==
  engine.rules = GetDefaultRules =>
    /\ (last.op = "decide" /\ last.result.outcome = "decision")
         => WellFormed(last.result.decision)
    /\ (last.op = "decide_batch" /\ last.result.outcome = "return")
         => \A i \in 1..Len(last.result.decisions) :
              WellFormed(last.result.decisions[i])

\* C25 happens: a batch of the default engine returned a fixed Decision and
\* a synthetic ERROR Decision.
C25_Witness ==
  /\ engine.rules = GetDefaultRules
  /\ last.op = "decide_batch"
  /\ last.advisories = <<RecordFix, RecordBadSources>>
  /\ last.result.outcome = "return"
  /\ last.result.decisions[1].state = "fixed"
  /\ last.result.decisions[1].fixed_version = "1.0.0"
  /\ last.result.decisions[2].reason_code = "ERROR"
  /\ last.result.decisions[2].state_type = "non_final"

\* C32: on a dict record explain_decision evaluates every rule: its trace has
\* one entry per rule of the engine, in the engine's ascending priority
\* order, matched exactly for the rules whose evaluate returns a Decision, a
\* raising rule being unmatched with its error; its decision is None when no
\* rule matches and else carries the state, reason_code and applied_rule of
\* the Decision decide returns for the record, the first matched rule's.
C32_ExplainDecisionTrace ==
  (last.op = "explain_decision" /\ IsMapping(last.advisory_data)) =>
    LET res == last.result
        t == res.evaluation_trace
        d == Decide(engine, last.advisory_data)
        hits == {i \in 1..Len(engine.rules) :
                   Evaluate(engine.rules[i], last.advisory_data).outcome = "decision"}
    IN /\ res.outcome = "return"
       /\ Len(t) = Len(engine.rules)
       /\ res.total_rules_evaluated = Len(engine.rules)
       /\ \A i \in 1..Len(t) :
            /\ t[i].rule_id = engine.rules[i].rule_id
            /\ t[i].priority = engine.rules[i].priority
            /\ t[i].matched <=> i \in hits
            /\ Evaluate(engine.rules[i], last.advisory_data).outcome = "raise"
                 => "error" \in DOMAIN t[i] /\ ~t[i].matched
       /\ \A i, j \in 1..Len(t) : i < j => t[i].priority <= t[j].priority
       /\ hits = {} => res.decision = <<>> /\ d.outcome = "raise"
       /\ hits # {} =>
            LET first == CHOOSE i \in hits : \A j \in hits : i <= j
            IN /\ res.decision # <<>>
               /\ d.outcome = "decision"
               /\ res.decision[1].state = d.decision.state
               /\ res.decision[1].reason_code = d.decision.reason_code
               /\ res.decision[1].evidence["applied_rule"]
                    = d.decision.evidence["applied_rule"]
               /\ res.decision[1].evidence["applied_rule"] = t[first].rule_id
               /\ res.decision[1].state = t[first].result

\* C32 happens: with the default rules the CSV override record matches the
\* first rule and the catch-all rule, and the trace lists all five rules.
C32_Witness ==
  /\ last.op = "explain_decision"
  /\ last.advisory_data = RecordCsv
  /\ engine.rules = GetDefaultRules
  /\ Len(last.result.evaluation_trace) = 5
  /\ last.result.evaluation_trace[1].matched
  /\ ~last.result.evaluation_trace[2].matched
  /\ last.result.evaluation_trace[5].matched
  /\ last.result.decision[1].reason_code = "CSV_OVERRIDE"

(***************************************************************************)
(* Properties of the explainer.                                            *)
(***************************************************************************)
\* C23: explain returns a string and does not raise, for every reason code
\* and every evidence dict: missing keys, None values, list and dict values,
\* source lists with non-str items, timestamps that do not parse.
C23_ExplainNeverRaises ==
  last.op = "explain" => last.result.outcome = "return"

\* The {placeholders} of a template.
TemplateVariables(template) ==
  {template[i].v : i \in {j \in 1..Len(template) : template[j].kind = "var"}}

\* C34: when the selected template names a variable that is neither a key of
\* the evidence nor one of the built-in defaults, explain returns exactly
\* "Advisory classified as <state>. Reason: <reason_code>.", <state> being
\* evidence['state'], or "unknown" without that key.
C34_FallbackSentence ==
  (/\ last.op = "explain"
   /\ TemplateVariables(SelectTemplate(DecisionExplainer(last.templates), last.reason_code))
        \ (DOMAIN last.evidence \cup DOMAIN ValueDefaults) # {}) =>
    /\ last.result.outcome = "return"
    /\ last.result.text =
         <<"Advisory classified as ",
           IF "state" \in DOMAIN last.evidence
             THEN last.evidence["state"].str ELSE "unknown",
           ". Reason: ", last.reason_code, ".">>

\* C35: for every template mapping, explain with a reason_code that has no
\* template returns a non-empty explanation, the rendering of the mapping's
\* DEFAULT template.
C35_UnknownReasonRendersDefault ==
  LET x == DecisionExplainer(last.templates)
  IN (last.op = "explain" /\ last.reason_code \notin DOMAIN x.templates) =>
       /\ last.result.outcome = "return"
       /\ last.result.text # <<>>
       /\ "DEFAULT" \in DOMAIN x.templates =>
            last.result.text =
              Strip(Format(x.templates["DEFAULT"],
                           PrepareValues(last.evidence, last.fixed_version).values))

(***************************************************************************)
(* Properties of the circuit breaker and of _request.                      *)
(***************************************************************************)
\* C37: the breaker is open only after failure_threshold failures with no
\* record_success in between; with fewer, can_attempt is true; once open,
\* can_attempt is false until open_seconds have elapsed since the opening
\* failure; record_success resets the count to zero and closes the breaker.
C37_OpensAfterThreshold ==
  /\ breaker.opened_at # NoTime => audit.streak >= breaker.failure_threshold
  /\ (last.op = "can_attempt" /\ audit.streak < breaker.failure_threshold)
       => last.result
  /\ (last.op = "can_attempt" /\ audit.opening_at # NoTime
        /\ last.at - audit.opening_at < breaker.open_seconds)
       => ~last.result
  /\ last.op = "record_success"
       => /\ breaker.failure_count = 0
          /\ breaker.opened_at = NoTime
          /\ ~breaker.half_open

\* A breaker of threshold 2 opened at its second failure in a row and
\* refuses an attempt before open_seconds have elapsed.
C37_Witness ==
  /\ last.op = "can_attempt"
  /\ ~last.result
  /\ breaker.failure_threshold = 2
  /\ audit.streak = 2
  /\ last.at - audit.opening_at < breaker.open_seconds

\* C38: once open_seconds have elapsed on an open breaker, can_attempt
\* grants exactly one half-open probe, true once and then false, until an
\* outcome is recorded; a success closes the breaker, a failure re-opens it
\* for a further open_seconds; an open breaker with no probe out eventually
\* permits an attempt again.
C38_HalfOpenProbe ==
  /\ [](/\ audit.granted <= 1
        /\ (last.op = "can_attempt" /\ last.was_open
              /\ last.at - audit.failed_at >= breaker.open_seconds)
             => (last.result <=> last.granted = 0)
        /\ (last.op = "can_attempt" /\ last.was_open
              /\ last.at - audit.failed_at < breaker.open_seconds)
             => ~last.result
        /\ (last.op = "record_failure" /\ last.was_open)
             => /\ breaker.opened_at = last.at
                /\ ~breaker.half_open
        /\ (last.op = "record_success" /\ last.was_open)
             => breaker.opened_at = NoTime)
  /\ (/\ breaker.opened_at # NoTime
      /\ ~breaker.half_open
      /\ breaker.opened_at + breaker.open_seconds <= MaxMonotonic)
       ~> (breaker.half_open \/ breaker.opened_at = NoTime)

\* A second can_attempt after the probe was granted is refused.
C38_Witness ==
  /\ last.op = "can_attempt"
  /\ last.was_open
  /\ last.granted = 1
  /\ ~last.result
  /\ last.at - audit.failed_at >= breaker.open_seconds

\* C39: _request makes at most max_retries + 1 attempts and retries only on
\* request exceptions and retryable status codes; a permitted call records
\* exactly one outcome, record_success when a response is returned and
\* record_failure once when the call ends in an error; with the breaker
\* open it raises CircuitOpenError without an attempt.
C39_OneOutcomePerRequest ==
  last.op = "_request" =>
    /\ last.attempts <= retry_config.max_retries + 1
    /\ \A i \in 1..(last.attempts - 1) :
         \/ last.responses[i].exception
         \/ last.responses[i].status_code \in RETRYABLE_STATUS_CODES
    /\ last.permitted =>
         last.records = IF last.outcome = "return"
                        THEN <<"success">> ELSE <<"failure">>
    /\ ~last.permitted =>
         /\ last.error = "CircuitOpenError"
         /\ last.attempts = 0
         /\ last.records = <<>>

(***************************************************************************)
(* Properties of the loader.                                               *)
(***************************************************************************)
\* C40: after a per-source load with a run_id the table's rows of that
\* run_id are exactly the observations of the call, and the rows of other
\* run_ids are unchanged.
C40_LoadIdempotentPerRun ==
  last.op = "load" =>
    /\ {r \in raw[last.table] : r.run_id = last.run_id}
         = {RawRow(last.table, last.observations[i], last.run_id) :
              i \in 1..Len(last.observations)}
    /\ {r \in raw[last.table] : r.run_id # last.run_id}
         = {r \in last.before : r.run_id # last.run_id}

====
